---- MODULE Spec2Model ----
(***************************************************************************)
(* Model of dutchsoils.SoilProfile (src/src/dutchsoils/soilprofile.py):    *)
(* the resolution of a soil profile from an index, a soil unit code or a   *)
(* BOFEK cluster, the batch entry points from_index / from_code /          *)
(* from_bofekcluster, and the discretisation get_swapinput_profile.        *)
(*                                                                         *)
(* The csv tables of the package are the variable store, read-only after   *)
(* Init.  Every entry point is one action; a behaviour is one call on one  *)
(* store.  A Python exception is an outcome [ok |-> FALSE, exc, msg].      *)
(* requests is the log of the HTTP requests sent to the map service, each  *)
(* with the response it got, and warnings the log of the warnings issued.  *)
(***************************************************************************)
EXTENDS Integers, Sequences, FiniteSets, TLC

VARIABLES store, call, result, requests, warnings

vars == <<store, call, result, requests, warnings>>

(***************************************************************************)
(* Bounds of the model.                                                    *)
(***************************************************************************)
\* longest sequence given to from_index / from_code / from_bofekcluster
MaxInput == 2
\* longest list of discretisation depths or of compartment heights
MaxGrid == 2
\* largest discretisation depth of one zone (cm)
MaxDepth == 4
\* largest compartment height (cm)
MaxHeight == 2
\* deepest horizon bottom of a profile (cm)
MaxZ == 5

(***************************************************************************)
(* Values.  None is the empty tuple and a set attribute v is <<v>>, so     *)
(* that an attribute is comparable whatever its type.                      *)
(***************************************************************************)
None == << >>
Some(v) == <<v>>
IsNone(x) == x = << >>
Val(x) == x[1]
\* the attribute that holds the empty list []
EmptyList == <<"[", "]">>

\* the keys of the tables, and for each kind one value no table holds
ProfileIds == {101, 102, 103}
AbsentIndex == {999}
SoilUnits == {"Hn21", "Zn21"}
AbsentCode == {"test"}
ClusterNrList == <<1001, 1002>>
ClusterNrs == {ClusterNrList[i] : i \in 1..Len(ClusterNrList)}
AbsentCluster == {9999}

\* othersoilname of a profile and name of a cluster, as the tables hold them
SoilName(id) == <<"soil", id>>
ClusterName(nr) == <<"bofek", nr>>

(***************************************************************************)
(* Outcomes of a Python function: a return value or a raised exception.    *)
(***************************************************************************)
NoMsg == [text |-> "", args |-> << >>]
Return(v) == [ok |-> TRUE, exc |-> "", msg |-> NoMsg, val |-> v]
Raise(exc, text, args) ==
    [ok |-> FALSE, exc |-> exc, msg |-> [text |-> text, args |-> args], val |-> << >>]

(***************************************************************************)
(* Sequence helpers (pandas / numpy selections).                           *)
(***************************************************************************)
\* data.loc[mask]: the rows satisfying Test, in row order
SelectRows(rows, Test(_)) ==
    LET F[r \in (1..(Len(rows) + 1)) \X (0..Len(rows))] ==
            LET mid == (r[1] + r[2]) \div 2
            IN  IF r[1] > r[2] THEN << >>
                ELSE IF r[1] = r[2]
                THEN IF Test(rows[r[1]]) THEN <<rows[r[1]]>> ELSE << >>
                ELSE F[<<r[1], mid>>] \o F[<<mid + 1, r[2]>>]
    IN  F[<<1, Len(rows)>>]

\* value in data[col].values
InColumn(rows, col, value) == \E i \in 1..Len(rows) : rows[i][col] = value

\* data.loc[data[col] == value, out], as a list
Lookup(rows, col, value, out) ==
    LET sel == SelectRows(rows, LAMBDA r : r[col] = value)
    IN  [i \in 1..Len(sel) |-> sel[i][out]]

(***************************************************************************)
(* The tables (SoilProfile._get_data_csv).                                 *)
(***************************************************************************)
GetDataCsv(csvfile) == store[csvfile]

(***************************************************************************)
(* SoilProfile._validate_input.  x is the value as an attribute holds it:  *)
(* Some(v), or EmptyList for the list [].  numpy evaluates `[] in column`  *)
(* as (column == []).any(): the comparison of a column of n rows with an   *)
(* array of no element raises for n # 1 and is empty, hence False, for     *)
(* n = 1.                                                                  *)
(***************************************************************************)
InValues(rows, col, x) ==
    IF x = EmptyList THEN FALSE ELSE InColumn(rows, col, Val(x))

BroadcastFails(rows, x) == x = EmptyList /\ Len(rows) # 1

\* ValidateInput with the branch of "code" lost: a code is an unknown type
ValidateInputNoCode(input_type, x) ==
    LET data == GetDataCsv("BofekClusters")
        valid ==
            CASE input_type = "bofekcluster" -> InValues(data, "cluster", x)
              [] input_type = "index" -> InValues(data, "normalsoilprofile_id", x)
              [] OTHER -> FALSE
        text ==
            CASE input_type = "bofekcluster" -> "Given bofek cluster number does not exist."
              [] input_type = "index" -> "Given soilprofile index does not exist."
              [] OTHER -> "Unknown input type."
        args == IF input_type \in {"bofekcluster", "index"} THEN x ELSE << >>
    IN  IF input_type \in {"bofekcluster", "index"} /\ BroadcastFails(data, x)
        THEN Raise("ValueError", "operands could not be broadcast together", << >>)
        ELSE IF ~valid THEN Raise("ValueError", text, args) ELSE Return(None)

ValidateInput(input_type, x) ==
    LET data ==
            CASE input_type = "bofekcluster" -> GetDataCsv("BofekClusters")
              [] input_type = "index" -> GetDataCsv("BofekClusters")
              [] input_type = "code" -> GetDataCsv("SoilProfiles")
              [] OTHER -> << >>
        valid ==
            CASE input_type = "bofekcluster" -> InValues(data, "cluster", x)
              [] input_type = "index" -> InValues(data, "normalsoilprofile_id", x)
              [] input_type = "code" -> InValues(data, "soilunit", x)
              [] OTHER -> FALSE
        text ==
            CASE input_type = "bofekcluster" -> "Given bofek cluster number does not exist."
              [] input_type = "index" -> "Given soilprofile index does not exist."
              [] input_type = "code" -> "Given soilprofile code does not exist."
              [] OTHER -> "Unknown input type."
        args == IF input_type \in {"bofekcluster", "index", "code"} THEN x ELSE << >>
    IN  IF input_type \in {"bofekcluster", "index", "code"} /\ BroadcastFails(data, x)
        THEN Raise("ValueError", "operands could not be broadcast together", << >>)
        ELSE IF ~valid THEN Raise("ValueError", text, args) ELSE Return(None)

(***************************************************************************)
(* SoilProfile._set_code, _set_bofekcluster, _set_names: each returns the  *)
(* object with the attributes it sets, or the IndexError of an empty       *)
(* selection.                                                              *)
(***************************************************************************)
\* SetCode without the mask of the index: the code of the first row
SetCodeFirstRow(self, soilprofiles) ==
    IF soilprofiles = << >> THEN Raise("IndexError", "index 0 is out of bounds", << >>)
    ELSE Return([self EXCEPT !.code = Some(soilprofiles[1].soilunit)])

SetCode(self, soilprofiles) ==
    LET sel == Lookup(soilprofiles, "normalsoilprofile_id", Val(self.index), "soilunit")
    IN  IF sel = << >> THEN Raise("IndexError", "index 0 is out of bounds", << >>)
        ELSE Return([self EXCEPT !.code = Some(sel[1])])

SetBofekcluster(self, bofekclusters) ==
    LET row == SelectRows(bofekclusters,
                          LAMBDA r : r.normalsoilprofile_id = Val(self.index))
    IN  IF row = << >> THEN Raise("IndexError", "single positional indexer is out-of-bounds", << >>)
        ELSE Return([self EXCEPT !.bofekcluster = Some(row[1].cluster),
                                 !.bofekcluster_dominant = Some(row[1].dominant # 0)])

\* SetNames without the mask of the index: the name of the first row
SetNamesFirstRow(self, soilprofiles) ==
    LET bofeknames == GetDataCsv("BofekClustersNames")
        cnames == Lookup(bofeknames, "cluster", Val(self.bofekcluster), "name")
    IN  IF soilprofiles = << >> \/ cnames = << >>
        THEN Raise("IndexError", "index 0 is out of bounds", << >>)
        ELSE Return([self EXCEPT !.name = Some(soilprofiles[1].othersoilname),
                                 !.bofekcluster_name = Some(cnames[1])])

SetNames(self, soilprofiles) ==
    LET names == Lookup(soilprofiles, "normalsoilprofile_id", Val(self.index), "othersoilname")
        bofeknames == GetDataCsv("BofekClustersNames")
        cnames == Lookup(bofeknames, "cluster", Val(self.bofekcluster), "name")
    IN  IF names = << >> \/ cnames = << >>
        THEN Raise("IndexError", "index 0 is out of bounds", << >>)
        ELSE Return([self EXCEPT !.name = Some(names[1]),
                                 !.bofekcluster_name = Some(cnames[1])])

(***************************************************************************)
(* User input of the batch entry points: a scalar v is                     *)
(* [iter |-> FALSE, vals |-> <<v>>], a list is [iter |-> TRUE, vals |-> l].*)
(***************************************************************************)
Scalar(v) == [iter |-> FALSE, vals |-> <<v>>]
List(l) == [iter |-> TRUE, vals |-> l]

\* SoilProfile._is_iterable: an iterable that is not a string and not empty
IsIterable(obj) == obj.iter /\ Len(obj.vals) > 0

\* the object itself, as an attribute holds it (used when not _is_iterable)
AsAttr(obj) == IF obj.iter THEN EmptyList ELSE Some(obj.vals[1])

\* continue with F on the value of a successful outcome, else propagate
Then(o, F(_)) == IF o.ok THEN F(o.val) ELSE o

(***************************************************************************)
(* SoilProfile._get_indices: every value is validated, in input order,     *)
(* before any index is collected.                                          *)
(***************************************************************************)
RECURSIVE ValidateAll(_, _)
ValidateAll(variable, values) ==
    IF values = << >> THEN Return(None)
    ELSE LET v == ValidateInput(variable, Head(values))
         IN  IF ~v.ok THEN v ELSE ValidateAll(variable, Tail(values))

\* CollectIndices keeping the indices of the last value only
\* (indices_all = indices in place of indices_all += indices)
CollectIndicesLast(data, col, values) ==
    IF values = << >> THEN << >>
    ELSE Lookup(data, col, Val(values[Len(values)]), "normalsoilprofile_id")

RECURSIVE CollectIndices(_, _, _)
CollectIndices(data, col, values) ==
    IF values = << >> THEN << >>
    ELSE Lookup(data, col, Val(Head(values)), "normalsoilprofile_id")
            \o CollectIndices(data, col, Tail(values))

\* GetIndices returning the indices in ascending order, each once
GetIndicesSorted(isCluster, input) ==
    LET variable == IF isCluster THEN "bofekcluster" ELSE "code"
        values == IF IsIterable(input)
                  THEN [i \in 1..Len(input.vals) |-> Some(input.vals[i])]
                  ELSE <<AsAttr(input)>>
        checked == ValidateAll(variable, values)
        data == GetDataCsv(IF isCluster THEN "BofekClusters" ELSE "SoilProfiles")
        col == IF isCluster THEN "cluster" ELSE "soilunit"
        all == CollectIndices(data, col, values)
        ids == {all[i] : i \in DOMAIN all}
        F[T \in SUBSET ids] ==
            IF T = {} THEN << >>
            ELSE LET m == CHOOSE x \in T : \A y \in T : x <= y
                 IN  <<m>> \o F[T \ {m}]
    IN  IF ~checked.ok THEN checked ELSE Return(F[ids])

GetIndices(isCluster, input) ==
    LET variable == IF isCluster THEN "bofekcluster" ELSE "code"
        values == IF IsIterable(input)
                  THEN [i \in 1..Len(input.vals) |-> Some(input.vals[i])]
                  ELSE <<AsAttr(input)>>
        checked == ValidateAll(variable, values)
        name_csv == IF isCluster THEN "BofekClusters" ELSE "SoilProfiles"
        data == GetDataCsv(name_csv)
        col == IF isCluster THEN "cluster" ELSE "soilunit"
    IN  IF ~checked.ok THEN checked
        ELSE Return(CollectIndices(data, col, values))

(***************************************************************************)
(* SoilProfile._init_from_index, _init_from_code, _init_from_bofekcluster  *)
(***************************************************************************)
InitFromIndex(self, soilprofiles, bofekclusters) ==
    Then(ValidateInput("index", self.index), LAMBDA u :
    Then(SetBofekcluster(self, bofekclusters), LAMBDA s1 :
         SetCode(s1, soilprofiles)))

\* InitFromCode taking the first index of a code shared by several profiles
InitFromCodeFirst(self, bofekclusters) ==
    Then(ValidateInput("code", self.code), LAMBDA u :
    Then(GetIndices(FALSE, Scalar(Val(self.code))), LAMBDA indices :
         SetBofekcluster([self EXCEPT !.index = Some(indices[1])], bofekclusters)))

InitFromCode(self, bofekclusters) ==
    Then(ValidateInput("code", self.code), LAMBDA u :
    Then(GetIndices(FALSE, Scalar(Val(self.code))), LAMBDA indices :
         IF Len(indices) = 1
         THEN SetBofekcluster([self EXCEPT !.index = Some(indices[1])], bofekclusters)
         ELSE Raise("ValueError",
                    "Given soil unit code corresponds to multiple soils with indices",
                    <<Val(self.code), indices>>)))

\* .values[0] in place of .item(): the first element of the selection
ItemFirst(sel) ==
    IF sel # << >> THEN Return(sel[1])
    ELSE Raise("IndexError", "index 0 is out of bounds", << >>)

\* pandas Series.item(): the only element, ValueError for any other size
Item(sel) ==
    IF Len(sel) = 1 THEN Return(sel[1])
    ELSE Raise("ValueError", "can only convert an array of size 1 to a Python scalar", << >>)

\* InitFromBofekcluster with the mask of the dominance flag alone
InitFromBofekclusterAnyCluster(self, soilprofiles, bofekclusters) ==
    Then(ValidateInput("bofekcluster", self.bofekcluster), LAMBDA u :
         IF IsNone(self.bofekcluster_dominant)
         THEN Raise("ValueError", "Please specify the attribute bofekcluster_dominant.", << >>)
         ELSE IF Val(self.bofekcluster_dominant)
         THEN LET mask == SelectRows(bofekclusters, LAMBDA r : r.dominant = 1)
                  ids == [i \in 1..Len(mask) |-> mask[i].normalsoilprofile_id]
              IN  Then(Item(ids), LAMBDA id :
                       SetCode([self EXCEPT !.index = Some(id)], soilprofiles))
         ELSE Raise("ValueError",
                    "To get all soilprofiles corresponding to this BOFEK cluster, use the method from_bofekcluster().",
                    << >>))

\* InitFromBofekcluster checking the dominance before the cluster
InitFromBofekclusterDominanceFirst(self, soilprofiles, bofekclusters) ==
    IF IsNone(self.bofekcluster_dominant)
    THEN Raise("ValueError", "Please specify the attribute bofekcluster_dominant.", << >>)
    ELSE Then(ValidateInput("bofekcluster", self.bofekcluster), LAMBDA u :
         IF Val(self.bofekcluster_dominant)
         THEN LET mask == SelectRows(bofekclusters, LAMBDA r :
                              r.cluster = Val(self.bofekcluster) /\ r.dominant = 1)
                  ids == [i \in 1..Len(mask) |-> mask[i].normalsoilprofile_id]
              IN  Then(Item(ids), LAMBDA id :
                       SetCode([self EXCEPT !.index = Some(id)], soilprofiles))
         ELSE Raise("ValueError",
                    "To get all soilprofiles corresponding to this BOFEK cluster, use the method from_bofekcluster().",
                    << >>))

InitFromBofekcluster(self, soilprofiles, bofekclusters) ==
    Then(ValidateInput("bofekcluster", self.bofekcluster), LAMBDA u :
         IF IsNone(self.bofekcluster_dominant)
         THEN Raise("ValueError", "Please specify the attribute bofekcluster_dominant.", << >>)
         ELSE IF Val(self.bofekcluster_dominant)
         THEN LET mask == SelectRows(bofekclusters, LAMBDA r :
                              r.cluster = Val(self.bofekcluster) /\ r.dominant = 1)
                  ids == [i \in 1..Len(mask) |-> mask[i].normalsoilprofile_id]
              IN  Then(Item(ids), LAMBDA id :
                       SetCode([self EXCEPT !.index = Some(id)], soilprofiles))
         ELSE Raise("ValueError",
                    "To get all soilprofiles corresponding to this BOFEK cluster, use the method from_bofekcluster().",
                    << >>))

(***************************************************************************)
(* SoilProfile.__post_init__: the constructor.  The arguments are          *)
(* attributes: None when not given.                                        *)
(***************************************************************************)
\* NrInputs counting index and bofekcluster only
NrInputsNoCode(index, bofekcluster, code) ==
    Cardinality({k \in {"index", "bofekcluster"} :
                    ~IsNone(CASE k = "index" -> index
                              [] k = "bofekcluster" -> bofekcluster)})

NrInputs(index, bofekcluster, code) ==
    Cardinality({k \in {"index", "bofekcluster", "code"} :
                    ~IsNone(CASE k = "index" -> index
                              [] k = "bofekcluster" -> bofekcluster
                              [] k = "code" -> code)})

PostInit(index, code, bofekcluster, bofekcluster_dominant) ==
    LET self == [index |-> index, code |-> code, name |-> None,
                 bofekcluster |-> bofekcluster, bofekcluster_name |-> None,
                 bofekcluster_dominant |-> bofekcluster_dominant]
        nr_inputs == NrInputs(index, bofekcluster, code)
        bofekclusters == GetDataCsv("BofekClusters")
        soilprofiles == GetDataCsv("SoilProfiles")
        inited ==
            IF ~IsNone(self.index)
            THEN InitFromIndex(self, soilprofiles, bofekclusters)
            ELSE IF ~IsNone(self.code)
            THEN InitFromCode(self, bofekclusters)
            ELSE InitFromBofekcluster(self, soilprofiles, bofekclusters)
    IN  IF nr_inputs # 1
        THEN Raise("ValueError",
                   "Provide exactly one input: soilprofile index, code, or bofek cluster number.",
                   << >>)
        ELSE Then(inited, LAMBDA s1 : SetNames(s1, soilprofiles))

(***************************************************************************)
(* SoilProfile._from_userinput and the entry points built on it.  A        *)
(* result is [shape |-> "single" | "list", profiles |-> the objects].      *)
(***************************************************************************)
\* cls(**{input_type: ii}, **kwargs)
Cls(input_type, ii, dominant) ==
    PostInit(IF input_type = "index" THEN ii ELSE None,
             IF input_type = "code" THEN ii ELSE None,
             IF input_type = "bofekcluster" THEN ii ELSE None,
             dominant)

\* a comprehension that leaves out the elements whose construction fails
RECURSIVE ComprehensionSkip(_, _, _)
ComprehensionSkip(input_type, vals, dominant) ==
    IF vals = << >> THEN Return(<< >>)
    ELSE LET sp == Cls(input_type, Some(Head(vals)), dominant)
             rest == ComprehensionSkip(input_type, Tail(vals), dominant)
         IN  IF sp.ok THEN Return(<<sp.val>> \o rest.val) ELSE rest

\* a comprehension over the distinct elements of the input
RECURSIVE ComprehensionDistinct(_, _, _)
ComprehensionDistinct(input_type, vals, dominant) ==
    IF vals = << >> THEN Return(<< >>)
    ELSE Then(Cls(input_type, Some(Head(vals)), dominant), LAMBDA sp :
         Then(ComprehensionDistinct(input_type,
                                    SelectRows(Tail(vals), LAMBDA v : v # Head(vals)),
                                    dominant), LAMBDA rest :
              Return(<<sp>> \o rest)))

\* [cls(...) for ii in input]: the first exception ends the comprehension
RECURSIVE Comprehension(_, _, _)
Comprehension(input_type, vals, dominant) ==
    IF vals = << >> THEN Return(<< >>)
    ELSE Then(Cls(input_type, Some(Head(vals)), dominant), LAMBDA sp :
         Then(Comprehension(input_type, Tail(vals), dominant), LAMBDA rest :
              Return(<<sp>> \o rest)))

FromUserinput(input, input_type, dominant) ==
    IF IsIterable(input)
    THEN Then(Comprehension(input_type, input.vals, dominant), LAMBDA sps :
              Return([shape |-> "list", profiles |-> sps]))
    ELSE Then(Cls(input_type, AsAttr(input), dominant), LAMBDA sp :
              Return([shape |-> "single", profiles |-> <<sp>>]))

FromIndex(index) == FromUserinput(index, "index", None)

FromBofekcluster(cluster, dominant) ==
    IF dominant
    THEN FromUserinput(cluster, "bofekcluster", Some(TRUE))
    ELSE Then(GetIndices(TRUE, cluster), LAMBDA indices :
              FromUserinput(List(indices), "index", None))

FromCode(code) ==
    Then(GetIndices(FALSE, code), LAMBDA indices :
         FromUserinput(IF Len(indices) = 1 THEN Scalar(indices[1]) ELSE List(indices),
                       "index", None))

(***************************************************************************)
(* SoilProfile.get_data_horizons: the rows of SoilHorizons of this         *)
(* profile, in row order (top to bottom).                                  *)
(***************************************************************************)
GetDataHorizons(self) ==
    SelectRows(GetDataCsv("SoilHorizons"),
               LAMBDA r : r.normalsoilprofile_id = Val(self.index))

(***************************************************************************)
(* SoilProfile.get_swapinput_profile.  zbottom is held in the table in     *)
(* metres with two decimals; the model writes it as the whole number of    *)
(* centimetres z that the decimal z/100 denotes.                           *)
(***************************************************************************)
\* the z below 400 for which the double product (z/100) * 100 is below z
FloatTruncated == {29, 57, 58, 113, 114, 115, 116, 201, 203, 205, 207,
                   226, 228, 230, 232, 251, 253, 255}

\* (zbottom * 100).astype(int): the product of doubles, truncated
M2Cm(z) == IF z \in FloatTruncated THEN z - 1 ELSE z

RECURSIVE Sum(_)
Sum(s) ==
    IF s = << >> THEN 0
    ELSE IF Len(s) = 1 THEN s[1]
    ELSE Sum(SubSeq(s, 1, Len(s) \div 2)) + Sum(SubSeq(s, Len(s) \div 2 + 1, Len(s)))

\* sorted(S) for a set of integers
Sorted(S) ==
    IF S = {} THEN << >>
    ELSE LET lo == CHOOSE x \in S : \A y \in S : x <= y
             hi == CHOOSE x \in S : \A y \in S : y <= x
         IN  SelectRows([i \in 1..(hi - lo + 1) |-> lo + i - 1], LAMBDA v : v \in S)

Range(s) == {s[i] : i \in DOMAIN s}

Min(a, b) == IF a <= b THEN a ELSE b

\* zip(depths, heights): the pairs up to the shorter of the two lists
Zip(depths, heights) ==
    [i \in 1..Min(Len(depths), Len(heights)) |-> <<depths[i], heights[i]>>]

\* concatenate([ones(int(d / h)) * h for d, h in pairs]); d / h is whole here
RECURSIVE Ones(_)
Ones(pairs) ==
    IF pairs = << >> THEN << >>
    ELSE [i \in 1..(Head(pairs)[1] \div Head(pairs)[2]) |-> Head(pairs)[2]]
            \o Ones(Tail(pairs))

\* cumsum
Cumsum(s) == [i \in DOMAIN s |-> Sum(SubSeq(s, 1, i))]

\* Heights giving every bottom as a height, without the differences
HeightsNoDiff(zb) == zb

\* concatenate([[zb[0]], diff(zb)]) for a non-empty zb
Heights(zb) == [i \in DOMAIN zb |-> IF i = 1 THEN zb[1] ELSE zb[i] - zb[i - 1]]

\* searchsorted(a, v, side="left"): the number of elements of a below v
SearchsortedLeft(a, v) == Cardinality({i \in DOMAIN a : a[i] < v})

\* (a1, a2) before (b1, b2) in the order of the group keys
KeyBefore(a, b) == a[1] < b[1] \/ (a[1] = b[1] /\ a[2] <= b[2])

\* Groupby summing, for a key, the HSUBLAY of all the rows of its soil layer
GroupbyLayerTotal(rows) ==
    LET keys == {<<rows[i].ISOILLAY, rows[i].HCOMP>> : i \in DOMAIN rows}
        Total(k) ==
            LET sel == SelectRows(rows, LAMBDA r : r.ISOILLAY = k[1])
            IN  Sum([i \in DOMAIN sel |-> sel[i].HSUBLAY])
        F[T \in SUBSET keys] ==
            IF T = {} THEN << >>
            ELSE LET k == CHOOSE x \in T : \A y \in T : KeyBefore(x, y)
                 IN  <<[ISOILLAY |-> k[1], HCOMP |-> k[2], HSUBLAY |-> Total(k)]>>
                        \o F[T \ {k}]
    IN  F[keys]

\* DataFrame.groupby(["ISOILLAY", "HCOMP"], as_index=False).sum(): one row
\* per distinct key, the rows in ascending key order, HSUBLAY summed over
\* all the rows of the key
Groupby(rows) ==
    LET keys == {<<rows[i].ISOILLAY, rows[i].HCOMP>> : i \in DOMAIN rows}
        Total(k) ==
            LET sel == SelectRows(rows, LAMBDA r : <<r.ISOILLAY, r.HCOMP>> = k)
            IN  Sum([i \in DOMAIN sel |-> sel[i].HSUBLAY])
        F[T \in SUBSET keys] ==
            IF T = {} THEN << >>
            ELSE LET k == CHOOSE x \in T : \A y \in T : KeyBefore(x, y)
                 IN  <<[ISOILLAY |-> k[1], HCOMP |-> k[2], HSUBLAY |-> Total(k)]>>
                        \o F[T \ {k}]
    IN  F[keys]

\* check.nonzero()[0]: the positions of the pairs whose depth is not a
\* whole number of compartments
NonConformingFirst(pairs) ==
    LET bad == {i \in DOMAIN pairs : pairs[i][1] % pairs[i][2] # 0}
    IN  IF bad = {} THEN << >> ELSE <<CHOOSE i \in bad : \A j \in bad : i <= j>>

NonConforming(pairs) ==
    LET check == [i \in DOMAIN pairs |-> pairs[i][1] % pairs[i][2]]
    IN  SelectRows([i \in DOMAIN pairs |-> i], LAMBDA i : check[i] # 0)

\* comps_zb[comps_zb <= sum(discretisation_depths)]
KeepAll(comps_zb, total) == comps_zb

RemoveDeeper(comps_zb, total) == SelectRows(comps_zb, LAMBDA z : z <= total)

GetSwapinputProfile(self, discretisation_depths, discretisation_compheights) ==
    LET data == GetDataHorizons(self)
        pairs == Zip(discretisation_depths, discretisation_compheights)
        idx == NonConforming(pairs)
        comps_h0 == Ones(pairs)
        comps_zb0 == Cumsum(comps_h0)
        soillay_zb == [i \in DOMAIN data |-> M2Cm(data[i].zbottom)]
        union == Sorted(Range(soillay_zb) \cup Range(comps_zb0))
        total == Sum(discretisation_depths)
        comps_zb == RemoveDeeper(union, total)
        comps_h == Heights(comps_zb)
        Clamp(l) == IF l > Len(soillay_zb) THEN Len(soillay_zb) ELSE l
        comps_soillay ==
            [i \in DOMAIN comps_zb |-> Clamp(SearchsortedLeft(soillay_zb, comps_zb[i]) + 1)]
        frame == [i \in DOMAIN comps_zb |->
                    [ISOILLAY |-> comps_soillay[i], HCOMP |-> comps_h[i],
                     HSUBLAY |-> comps_h[i]]]
        grouped == Groupby(frame)
    IN  IF idx # << >>
        THEN Raise("ValueError",
                   "The given compartment depths are not a natural product of the given compartment heights",
                   <<[i \in DOMAIN idx |-> discretisation_depths[idx[i]]],
                     [i \in DOMAIN idx |-> discretisation_compheights[idx[i]]]>>)
        ELSE IF pairs = << >>
        THEN Raise("ValueError", "need at least one array to concatenate", << >>)
        ELSE IF comps_zb = << >>
        THEN Raise("IndexError", "index 0 is out of bounds", << >>)
        ELSE Return([i \in DOMAIN grouped |->
                        [ISUBLAY |-> i, ISOILLAY |-> grouped[i].ISOILLAY,
                         HSUBLAY |-> grouped[i].HSUBLAY, HCOMP |-> grouped[i].HCOMP,
                         NCOMP |-> grouped[i].HSUBLAY \div grouped[i].HCOMP]])

(***************************************************************************)
(* SoilProfile.from_location and its helpers.  A coordinate value is       *)
(* Num(n) for an int or a float and Text(s) for a string; x and y are      *)
(* Scalar(v) or List(l) of such values.                                    *)
(***************************************************************************)
Num(n) == <<n>>
Text(s) == <<"str", s>>

\* isinstance(v, (float, int))
IsNumber(v) == Len(v) = 1

\* the object as a message shows it (used when not _is_iterable)
ItemOf(obj) == IF obj.iter THEN EmptyList ELSE obj.vals[1]

\* for i, xx in enumerate(x): if not isinstance(xx, (float, int)): raise ...
\* the 0-based positions of the elements that are not numbers, in order
NonNumbers(vals) ==
    SelectRows([i \in DOMAIN vals |-> i - 1], LAMBDA i : ~IsNumber(vals[i + 1]))

\* CheckInputLocation without the comparison of the lengths
CheckInputLocationNoLength(x, y) ==
    IF IsIterable(x)
    THEN IF ~IsIterable(y)
         THEN Raise("ValueError", "X is iterable while Y is not.", << >>)
         ELSE IF NonNumbers(x.vals) # << >>
         THEN Raise("ValueError",
                    "The {i}th element of the X-coordinates is neither a float or int.",
                    <<NonNumbers(x.vals)[1]>>)
         ELSE IF NonNumbers(y.vals) # << >>
         THEN Raise("ValueError",
                    "The {j}th element of the Y-coordinates is neither a float or int.",
                    <<NonNumbers(y.vals)[1]>>)
         ELSE Return(None)
    ELSE IF IsIterable(y)
         THEN Raise("ValueError", "Y is iterable while X is not.", << >>)
         ELSE IF ~IsNumber(ItemOf(x))
         THEN Raise("ValueError", "The X-coordinate '{x}' is neither a float or int.",
                    <<ItemOf(x)>>)
         ELSE IF ~IsNumber(ItemOf(y))
         THEN Raise("ValueError", "The Y-coordinate '{y}' is neither a float or int.",
                    <<ItemOf(y)>>)
         ELSE Return(None)

\* SoilProfile._check_input_location
CheckInputLocation(x, y) ==
    IF IsIterable(x)
    THEN IF ~IsIterable(y)
         THEN Raise("ValueError", "X is iterable while Y is not.", << >>)
         ELSE IF Len(x.vals) # Len(y.vals)
         THEN Raise("ValueError",
                    "List of X and Y coordinates do not have the same length (x: {len(x)}, y: {len(y)}).",
                    <<Len(x.vals), Len(y.vals)>>)
         ELSE IF NonNumbers(x.vals) # << >>
         THEN Raise("ValueError",
                    "The {i}th element of the X-coordinates is neither a float or int.",
                    <<NonNumbers(x.vals)[1]>>)
         ELSE IF NonNumbers(y.vals) # << >>
         THEN Raise("ValueError",
                    "The {j}th element of the Y-coordinates is neither a float or int.",
                    <<NonNumbers(y.vals)[1]>>)
         ELSE Return(None)
    ELSE IF IsIterable(y)
         THEN Raise("ValueError", "Y is iterable while X is not.", << >>)
         ELSE IF ~IsNumber(ItemOf(x))
         THEN Raise("ValueError", "The X-coordinate '{x}' is neither a float or int.",
                    <<ItemOf(x)>>)
         ELSE IF ~IsNumber(ItemOf(y))
         THEN Raise("ValueError", "The Y-coordinate '{y}' is neither a float or int.",
                    <<ItemOf(y)>>)
         ELSE Return(None)

(***************************************************************************)
(* The map service.  A response has a status and a body: a JSON document   *)
(* with the list "features", each feature holding its maparea_id, or an    *)
(* XML document with one ServiceException whose text is a sequence of      *)
(* pieces.  A maparea_id is a string, written as the sequence of its       *)
(* characters.                                                             *)
(***************************************************************************)
Json(status, features) ==
    [status |-> status, json |-> TRUE, features |-> features, text |-> << >>]
Xml(status, text) ==
    [status |-> status, json |-> FALSE, features |-> << >>, text |-> text]

\* RequestParams asking in the reference system of the map whatever the crs
RequestParamsOfMap(xx, yy, crs) == [crs |-> "EPSG:28992", bbox |-> <<xx, yy>>]

\* requests_get(url=..., params={..., "crs": crs, "bbox": f"{xx},{yy},{xx + 1e-5},{yy + 1e-5}", ...}):
\* the parameters that depend on the call; bbox is written by its lower corner
RequestParams(xx, yy, crs) == [crs |-> crs, bbox |-> <<xx, yy>>]

\* RaiseForStatus taking every status for a success
RaiseForStatusNever(r) == Return(None)

\* r.raise_for_status(): HTTPError for a status of 400 to 599
RaiseForStatus(r) ==
    IF r.status >= 400 /\ r.status < 600
    THEN Raise("HTTPError", "{status} Error", <<r.status>>)
    ELSE Return(None)

\* "Unsupported CRS namespace" in exception.text
UnsupportedCrs(text) == \E i \in DOMAIN text : text[i] = "Unsupported CRS namespace"

\* ServiceException raising the text of the service whatever it holds
ServiceExceptionRaw(crs, text) == Raise("ValueError", "{exception.text}", text)

\* the handler of JSONDecodeError: the ValueError of the ServiceException
ServiceException(crs, text) ==
    IF UnsupportedCrs(text)
    THEN Raise("ValueError", "Unsupported CRS: {crs}. Please use format 'EPSG:XXX'.", <<crs>>)
    ELSE Raise("ValueError", "{exception.text}", text)

\* SoilProfile._request_mapid, given the response r of the service:
\* None, Some(maparea_id) of the first feature, or an exception
RequestMapid(crs, r) ==
    Then(RaiseForStatus(r), LAMBDA u :
         IF r.json
         THEN IF Len(r.features) = 0 THEN Return(None)
              ELSE Return(Some(r.features[1]))
         ELSE ServiceException(crs, r.text))

\* int(s) for a string of the characters of a maparea_id: the decimal value
\* of a non-empty string of digits, ValueError for any other string
Digits == <<"0", "1", "2", "3", "4", "5", "6", "7", "8", "9">>

DigitValue(c) == (CHOOSE i \in DOMAIN Digits : Digits[i] = c) - 1

IntOf(s) ==
    LET F[i \in 0..Len(s)] == IF i = 0 THEN 0 ELSE 10 * F[i - 1] + DigitValue(s[i])
    IN  IF s # << >> /\ \A i \in DOMAIN s : s[i] \in Range(Digits)
        THEN Return(F[Len(s)])
        ELSE Raise("ValueError", "invalid literal for int() with base 10", s)

\* mapid[-5:]: the last five characters, or all of a shorter string
LastFive(mapid) ==
    IF Len(mapid) <= 5 THEN mapid ELSE SubSeq(mapid, Len(mapid) - 4, Len(mapid))

\* SoilProfile._from_mapid
FromMapid(mapid) ==
    LET df == GetDataCsv("SoilProfiles_MapAreaID")
    IN  Then(IntOf(LastFive(mapid)), LAMBDA mapid_short :
             LET sel == Lookup(df, "maparea_id", mapid_short, "normalsoilprofile_id")
             IN  IF sel = << >>
                 THEN Raise("IndexError", "index 0 is out of bounds", << >>)
                 ELSE Then(FromIndex(Scalar(sel[1])), LAMBDA r : Return(r.profiles[1])))

\* NoSoilWarning naming the coordinates in the opposite order
NoSoilWarningSwapped(xx, yy) ==
    [category |-> "UserWarning",
     text |-> "No soil information available for this location: x = {xx}, y = {yy}.",
     args |-> <<yy, xx>>]

\* warn(f"No soil information available for this location: x = {xx}, y = {yy}.")
NoSoilWarning(xx, yy) ==
    [category |-> "UserWarning",
     text |-> "No soil information available for this location: x = {xx}, y = {yy}.",
     args |-> <<xx, yy>>]

\* LocationLoop appending nothing for a location without a feature
RECURSIVE LocationLoopCompact(_, _, _, _)
LocationLoopCompact(pairs, crs, responses, acc) ==
    IF pairs = << >> THEN [acc EXCEPT !.outcome = Return(acc.outcome.val)]
    ELSE LET xx == Head(pairs)[1]
             yy == Head(pairs)[2]
             r == Head(responses)
             sent == [acc EXCEPT !.requests =
                        Append(@, [params |-> RequestParams(xx, yy, crs), response |-> r])]
             mapid == RequestMapid(crs, r)
             sp == FromMapid(Val(mapid.val))
         IN  IF ~mapid.ok THEN [sent EXCEPT !.outcome = mapid]
             ELSE IF ~IsNone(mapid.val)
             THEN IF ~sp.ok THEN [sent EXCEPT !.outcome = sp]
                  ELSE LocationLoopCompact(Tail(pairs), crs, Tail(responses),
                           [sent EXCEPT !.outcome.val = Append(@, Some(sp.val))])
             ELSE LocationLoopCompact(Tail(pairs), crs, Tail(responses),
                      [sent EXCEPT !.warnings = Append(@, NoSoilWarning(xx, yy))])

\* LocationLoop sending the requests of all the locations left before it
\* raises the exception of a location
RECURSIVE LocationLoopSendAll(_, _, _, _)
LocationLoopSendAll(pairs, crs, responses, acc) ==
    IF pairs = << >> THEN [acc EXCEPT !.outcome = Return(acc.outcome.val)]
    ELSE LET xx == Head(pairs)[1]
             yy == Head(pairs)[2]
             r == Head(responses)
             sent == [acc EXCEPT !.requests =
                        Append(@, [params |-> RequestParams(xx, yy, crs), response |-> r])]
             left == [i \in 1..(Len(pairs) - 1) |->
                        [params |-> RequestParams(pairs[i + 1][1], pairs[i + 1][2], crs),
                         response |-> responses[i + 1]]]
             mapid == RequestMapid(crs, r)
             sp == FromMapid(Val(mapid.val))
         IN  IF ~mapid.ok THEN [sent EXCEPT !.outcome = mapid, !.requests = @ \o left]
             ELSE IF ~IsNone(mapid.val)
             THEN IF ~sp.ok THEN [sent EXCEPT !.outcome = sp, !.requests = @ \o left]
                  ELSE LocationLoopSendAll(Tail(pairs), crs, Tail(responses),
                           [sent EXCEPT !.outcome.val = Append(@, Some(sp.val))])
             ELSE LocationLoopSendAll(Tail(pairs), crs, Tail(responses),
                      [sent EXCEPT !.outcome.val = Append(@, None),
                                   !.warnings = Append(@, NoSoilWarning(xx, yy))])

\* for xx, yy in zip(xl, yl): ... of from_location.  responses holds the
\* response of the service to each request to come; acc holds the list
\* result (an entry is Some(profile) or None) and the two logs so far
RECURSIVE LocationLoop(_, _, _, _)
LocationLoop(pairs, crs, responses, acc) ==
    IF pairs = << >> THEN [acc EXCEPT !.outcome = Return(acc.outcome.val)]
    ELSE LET xx == Head(pairs)[1]
             yy == Head(pairs)[2]
             r == Head(responses)
             sent == [acc EXCEPT !.requests =
                        Append(@, [params |-> RequestParams(xx, yy, crs), response |-> r])]
             mapid == RequestMapid(crs, r)
             sp == FromMapid(Val(mapid.val))
         IN  IF ~mapid.ok THEN [sent EXCEPT !.outcome = mapid]
             ELSE IF ~IsNone(mapid.val)
             THEN IF ~sp.ok THEN [sent EXCEPT !.outcome = sp]
                  ELSE LocationLoop(Tail(pairs), crs, Tail(responses),
                           [sent EXCEPT !.outcome.val = Append(@, Some(sp.val))])
             ELSE LocationLoop(Tail(pairs), crs, Tail(responses),
                      [sent EXCEPT !.outcome.val = Append(@, None),
                                   !.warnings = Append(@, NoSoilWarning(xx, yy))])

\* zip(xl, yl) of from_location: the locations of the call
Locations(x, y) ==
    LET is_scalar == ~(IsIterable(x) /\ IsIterable(y))
        xl == IF is_scalar THEN <<ItemOf(x)>> ELSE x.vals
        yl == IF is_scalar THEN <<ItemOf(y)>> ELSE y.vals
    IN  Zip(xl, yl)

\* SoilProfile.from_location: the outcome and the two logs of the call.  The
\* value returned is [shape |-> "single" | "list", entries |-> the entries].
FromLocation(x, y, crs, responses) ==
    LET checked == CheckInputLocation(x, y)
        is_scalar == ~(IsIterable(x) /\ IsIterable(y))
        start == [outcome |-> Return(<< >>), requests |-> << >>, warnings |-> << >>]
        loop == LocationLoop(Locations(x, y), crs, responses, start)
    IN  IF ~checked.ok THEN [start EXCEPT !.outcome = checked]
        ELSE IF ~loop.outcome.ok THEN loop
        ELSE [loop EXCEPT !.outcome =
                Return([shape |-> IF is_scalar THEN "single" ELSE "list",
                        entries |-> loop.outcome.val])]

(***************************************************************************)
(* The stores.  SoilProfiles and BofekClusters hold one row per profile,   *)
(* in any row order; several profiles may share a soil unit code.  In a    *)
(* store of the package every cluster has exactly one dominant profile;    *)
(* AnyStores also holds the tables in which a cluster has none or several. *)
(***************************************************************************)
Perms(S) == {f \in [1..Cardinality(S) -> S] : \A i, j \in DOMAIN f : f[i] = f[j] => i = j}

RowOrders == Perms(ProfileIds)

MkSoilProfiles(order, unit) ==
    [i \in DOMAIN order |->
        [normalsoilprofile_id |-> order[i], soilunit |-> unit[order[i]],
         othersoilname |-> SoilName(order[i])]]

MkBofekClusters(order, cluster, dominant) ==
    [i \in DOMAIN order |->
        [normalsoilprofile_id |-> order[i], cluster |-> cluster[order[i]],
         dominant |-> dominant[order[i]]]]

BofekClustersNames ==
    [i \in DOMAIN ClusterNrList |->
        [cluster |-> ClusterNrList[i], name |-> ClusterName(ClusterNrList[i])]]

\* the horizons of every profile of the resolver's stores: bottoms at 0.02 m and 0.04 m
DefaultHorizons ==
    [id \in ProfileIds |-> <<2, 4>>]

MkSoilHorizons(order, bottoms) ==
    LET Rows(id) == [l \in DOMAIN bottoms[id] |->
                        [normalsoilprofile_id |-> id, layernumber |-> l,
                         zbottom |-> bottoms[id][l]]]
        F[i \in 0..Len(order)] == IF i = 0 THEN << >> ELSE F[i - 1] \o Rows(order[i])
    IN  F[Len(order)]

\* the soil profile of every map area: two areas, each of its own profile
MapAreaTable ==
    <<[maparea_id |-> 1, normalsoilprofile_id |-> 102],
      [maparea_id |-> 2, normalsoilprofile_id |-> 101]>>

MkStore(porder, unit, corder, cluster, dominant, bottoms) ==
    [SoilProfiles |-> MkSoilProfiles(porder, unit),
     BofekClusters |-> MkBofekClusters(corder, cluster, dominant),
     BofekClustersNames |-> BofekClustersNames,
     SoilHorizons |-> MkSoilHorizons(porder, bottoms),
     SoilProfiles_MapAreaID |-> MapAreaTable]

\* exactly one dominant profile in every cluster that has a profile
OneDominant(cluster, dominant) ==
    \A nr \in ClusterNrs :
        (\E id \in ProfileIds : cluster[id] = nr)
            => Cardinality({id \in ProfileIds : cluster[id] = nr /\ dominant[id] = 1}) = 1

\* the cluster and the dominance flag of every profile
Memberships == [ProfileIds -> ClusterNrs] \X [ProfileIds -> {0, 1}]

Reverse(s) == [i \in DOMAIN s |-> s[Len(s) + 1 - i]]

\* BofekClusters lists the profiles in the row order of SoilProfiles or in
\* the opposite order
StoresOf(memberships) ==
    {MkStore(po[1], unit, po[2], cd[1], cd[2], DefaultHorizons) :
        po \in {<<o, o>> : o \in RowOrders} \cup {<<o, Reverse(o)>> : o \in RowOrders},
        unit \in [ProfileIds -> SoilUnits], cd \in memberships}

AnyStores == StoresOf(Memberships)

Stores == StoresOf({cd \in Memberships : OneDominant(cd[1], cd[2])})

(***************************************************************************)
(* The calls.                                                              *)
(***************************************************************************)
NoCall == [op |-> "none"]
NoResult == [ok |-> FALSE, exc |-> "", msg |-> NoMsg, val |-> << >>]

\* None or one of the values S
Optional(S) == {None} \cup {Some(v) : v \in S}

SeqsUpTo(S, n) == UNION {[1..k -> S] : k \in 0..n}

\* a scalar of S or a list of at most MaxInput elements of S
UserInputs(S) == {Scalar(v) : v \in S} \cup {List(l) : l \in SeqsUpTo(S, MaxInput)}

Indices == ProfileIds \cup AbsentIndex
Codes == SoilUnits \cup AbsentCode
Clusters == ClusterNrs \cup AbsentCluster

\* SoilProfile(index=..., code=..., bofekcluster=..., bofekcluster_dominant=...)
Construct ==
    /\ call = NoCall
    /\ \E index \in Optional(Indices), code \in Optional(Codes),
          bofekcluster \in Optional(Clusters), dominant \in Optional(BOOLEAN) :
          /\ call' = [op |-> "SoilProfile", index |-> index, code |-> code,
                      bofekcluster |-> bofekcluster, bofekcluster_dominant |-> dominant]
          /\ result' = Then(PostInit(index, code, bofekcluster, dominant), LAMBDA sp :
                            Return([shape |-> "single", profiles |-> <<sp>>]))
    /\ UNCHANGED <<store, requests, warnings>>

\* SoilProfile.from_index(index)
CallFromIndex ==
    /\ call = NoCall
    /\ \E index \in UserInputs(Indices) :
          /\ call' = [op |-> "from_index", input |-> index]
          /\ result' = FromIndex(index)
    /\ UNCHANGED <<store, requests, warnings>>

\* SoilProfile.from_bofekcluster(cluster, dominant)
CallFromBofekcluster ==
    /\ call = NoCall
    /\ \E cluster \in UserInputs(Clusters), dominant \in BOOLEAN :
          /\ call' = [op |-> "from_bofekcluster", input |-> cluster, dominant |-> dominant]
          /\ result' = FromBofekcluster(cluster, dominant)
    /\ UNCHANGED <<store, requests, warnings>>

\* SoilProfile.from_code(code)
CallFromCode ==
    /\ call = NoCall
    /\ \E code \in UserInputs(Codes) :
          /\ call' = [op |-> "from_code", input |-> code]
          /\ result' = FromCode(code)
    /\ UNCHANGED <<store, requests, warnings>>

Init ==
    /\ store \in Stores
    /\ call = NoCall
    /\ result = NoResult
    /\ requests = << >>
    /\ warnings = << >>

Next ==
    \/ Construct
    \/ CallFromIndex
    \/ CallFromBofekcluster
    \/ CallFromCode

Spec == Init /\ [][Next]_vars

\* the same calls on the stores that may break the dominance rule
InitAny ==
    /\ store \in AnyStores
    /\ call = NoCall
    /\ result = NoResult
    /\ requests = << >>
    /\ warnings = << >>

SpecAny == InitAny /\ [][Next]_vars

(***************************************************************************)
(* The discretisation: get_swapinput_profile called on a resolved profile  *)
(* whose horizons are any strictly deepening sequence of bottoms, with any *)
(* two lists of positive depths and heights (of any lengths).              *)
(***************************************************************************)
HorizonSeqs == {Sorted(S) : S \in (SUBSET (1..MaxZ)) \ {{}}}

\* the profile whose horizons vary, and one whose horizons are fixed
SwapProfiles == {101, 102}

SwapStores ==
    {MkStore(<<101, 102, 103>>, [id \in ProfileIds |-> "Hn21"],
             <<101, 102, 103>>, [id \in ProfileIds |-> 1001],
             [id \in ProfileIds |-> IF id = 103 THEN 1 ELSE 0],
             [id \in ProfileIds |-> IF id = 101 THEN h ELSE DefaultHorizons[id]]) :
        h \in HorizonSeqs}

\* sp = SoilProfile(index=...); sp.get_swapinput_profile(depths, heights)
CallGetSwapinputProfile ==
    /\ call = NoCall
    /\ \E id \in SwapProfiles,
          depths \in SeqsUpTo(1..MaxDepth, MaxGrid),
          heights \in SeqsUpTo(1..MaxHeight, MaxGrid) :
          /\ call' = [op |-> "get_swapinput_profile", index |-> id,
                      discretisation_depths |-> depths,
                      discretisation_compheights |-> heights]
          /\ result' = Then(PostInit(Some(id), None, None, None), LAMBDA sp :
                            GetSwapinputProfile(sp, depths, heights))
    /\ UNCHANGED <<store, requests, warnings>>

InitSwap ==
    /\ store \in SwapStores
    /\ call = NoCall
    /\ result = NoResult
    /\ requests = << >>
    /\ warnings = << >>

NextSwap == CallGetSwapinputProfile

SpecSwap == InitSwap /\ [][NextSwap]_vars

(***************************************************************************)
(* The map lookup: from_location, and the resolver calls, on a few stores. *)
(* The map service answers every request with any of Responses.            *)
(***************************************************************************)
\* longest list of coordinates given to from_location
MaxCoords == 2

\* a maparea_id of the service: a prefix and the digits of the area
Mapid(digits) == <<"m", ".">> \o digits

\* two areas of the table, an area of six digits and an area the table lacks
MapIds ==
    [known1 |-> Mapid(<<"0", "0", "0", "0", "1">>),
     known2 |-> Mapid(<<"0", "0", "0", "0", "2">>),
     long |-> Mapid(<<"1", "0", "0", "0", "0", "2">>),
     absent |-> Mapid(<<"0", "0", "0", "0", "9">>)]

Responses ==
    {Json(200, << >>), Json(200, <<MapIds.known1>>), Json(200, <<MapIds.known2>>),
     Json(200, <<MapIds.long>>), Json(200, <<MapIds.absent>>),
     Json(200, <<MapIds.known2, MapIds.known1>>),
     Json(404, << >>), Xml(500, <<"Internal Server Error">>),
     Xml(200, <<"msWMSLoadGetMapParams(): WMS server error. ",
                "Unsupported CRS namespace", " test">>),
     Xml(200, <<"msWMSLoadGetMapParams(): WMS server error. Invalid layer(s).">>)}

CRSs == {"EPSG:28992", "EPSG:4326", "test"}

CoordValues == {Num(0), Num(1), Text("test")}

\* a scalar coordinate or a list of at most MaxCoords coordinates
LocInputs ==
    {Scalar(v) : v \in CoordValues} \cup {List(l) : l \in SeqsUpTo(CoordValues, MaxCoords)}

\* profiles 101 and 102 share a soil unit code and are of different
\* clusters; BofekClusters lists the profiles in the opposite order of
\* SoilProfiles
LocStores ==
    {MkStore(<<101, 102, 103>>, [id \in ProfileIds |-> IF id = 103 THEN "Zn21" ELSE "Hn21"],
             <<103, 102, 101>>, cd[1], cd[2], DefaultHorizons) :
        cd \in {m \in Memberships :
                    OneDominant(m[1], m[2]) /\ m[1][101] = 1001 /\ m[1][102] = 1002}}

\* SoilProfile.from_location(x, y, crs)
CallFromLocation ==
    /\ call = NoCall
    /\ \E x \in LocInputs, y \in LocInputs, crs \in CRSs :
       \E responses \in [1..(IF CheckInputLocation(x, y).ok THEN Len(Locations(x, y)) ELSE 0)
                            -> Responses] :
       \E r \in {FromLocation(x, y, crs, responses)} :
          /\ call' = [op |-> "from_location", x |-> x, y |-> y, crs |-> crs]
          /\ result' = r.outcome
          /\ requests' = r.requests
          /\ warnings' = r.warnings
    /\ UNCHANGED store

InitLoc ==
    /\ store \in LocStores
    /\ call = NoCall
    /\ result = NoResult
    /\ requests = << >>
    /\ warnings = << >>

NextLoc ==
    \/ CallFromLocation
    \/ Construct
    \/ CallFromIndex
    \/ CallFromBofekcluster
    \/ CallFromCode

SpecLoc == InitLoc /\ [][NextLoc]_vars

(***************************************************************************)
(* The discretisation on the grids of the tests: get_swapinput_profile     *)
(* called with a grid of test_swapsoilprofile on a profile whose horizon   *)
(* bottoms are any of GridBottoms (hundredths of a metre).                 *)
(***************************************************************************)
\* the grids of test_swapsoilprofile, each <<depths, heights>>
Grids ==
    {<<<<50, 30, 60, 60, 100>>, <<1, 2, 5, 10, 20>>>>,
     <<<<10, 20, 80, 90, 100>>, <<1, 2, 5, 10, 20>>>>}

\* horizon bottoms on and off the compartment boundaries of the grids,
\* within and beyond their reach
GridBottoms == {30, 58, 65, 80, 115, 120, 140, 250, 320}

GridStores ==
    {MkStore(<<101, 102, 103>>, [id \in ProfileIds |-> "Hn21"],
             <<101, 102, 103>>, [id \in ProfileIds |-> 1001],
             [id \in ProfileIds |-> IF id = 103 THEN 1 ELSE 0],
             [id \in ProfileIds |-> IF id = 101 THEN Sorted(S) ELSE DefaultHorizons[id]]) :
        S \in (SUBSET GridBottoms) \ {{}}}

\* sp = SoilProfile(index=101); sp.get_swapinput_profile(depths, heights)
CallGetSwapinputProfileGrid ==
    /\ call = NoCall
    /\ \E grid \in Grids :
          /\ call' = [op |-> "get_swapinput_profile", index |-> 101,
                      discretisation_depths |-> grid[1],
                      discretisation_compheights |-> grid[2]]
          /\ result' = Then(PostInit(Some(101), None, None, None), LAMBDA sp :
                            GetSwapinputProfile(sp, grid[1], grid[2]))
    /\ UNCHANGED <<store, requests, warnings>>

InitGrid ==
    /\ store \in GridStores
    /\ call = NoCall
    /\ result = NoResult
    /\ requests = << >>
    /\ warnings = << >>

NextGrid == CallGetSwapinputProfileGrid

SpecGrid == InitGrid /\ [][NextGrid]_vars

(***************************************************************************)
(* Vocabulary of the properties.                                           *)
(***************************************************************************)
Returned == call.op # "none" /\ result.ok
Failed == call.op # "none" /\ ~result.ok

\* the call failed with a ValueError of this text and these arguments
FailedWith(text, args) ==
    /\ Failed
    /\ result.exc = "ValueError"
    /\ result.msg.text = text
    /\ result.msg.args = args

\* the value v of the given kind is in the table that defines the kind
Exists(kind, v) ==
    CASE kind = "index" ->
            \E i \in DOMAIN store.BofekClusters : store.BofekClusters[i].normalsoilprofile_id = v
      [] kind = "code" ->
            \E i \in DOMAIN store.SoilProfiles : store.SoilProfiles[i].soilunit = v
      [] kind = "bofekcluster" ->
            \E i \in DOMAIN store.BofekClusters : store.BofekClusters[i].cluster = v

NotFoundText(kind) ==
    CASE kind = "index" -> "Given soilprofile index does not exist."
      [] kind = "code" -> "Given soilprofile code does not exist."
      [] kind = "bofekcluster" -> "Given bofek cluster number does not exist."

NotFound(kind, v) == FailedWith(NotFoundText(kind), <<v>>)

\* the keys given to the constructor
GivenKeys == {k \in {"index", "code", "bofekcluster"} : call[k] # None}

\* the kind of key an entry point takes
KindOf(op) ==
    CASE op = "from_index" -> "index"
      [] op = "from_code" -> "code"
      [] op = "from_bofekcluster" -> "bofekcluster"

BatchOps == {"from_index", "from_code", "from_bofekcluster"}

\* the ids of the rows of a table whose column col holds v, in row order
IdsWith(table, col, v) ==
    LET pos == {i \in DOMAIN table : table[i][col] = v}
    IN  [k \in 1..Cardinality(pos) |->
            table[CHOOSE i \in pos : Cardinality({j \in pos : j <= i}) = k].normalsoilprofile_id]

RECURSIVE Flatten(_)
Flatten(ss) == IF ss = << >> THEN << >> ELSE Head(ss) \o Flatten(Tail(ss))

\* the identity the tables hold for the profile id
IdentityOf(id) ==
    LET p == CHOOSE r \in Range(store.SoilProfiles) : r.normalsoilprofile_id = id
        c == CHOOSE r \in Range(store.BofekClusters) : r.normalsoilprofile_id = id
        n == CHOOSE r \in Range(store.BofekClustersNames) : r.cluster = c.cluster
    IN  [index |-> Some(id), code |-> Some(p.soilunit), name |-> Some(p.othersoilname),
         bofekcluster |-> Some(c.cluster), bofekcluster_name |-> Some(n.name),
         bofekcluster_dominant |-> Some(c.dominant = 1)]

\* the ids of the dominant rows of a cluster, in row order
DominantIds(cl) ==
    LET pos == {i \in DOMAIN store.BofekClusters :
                    store.BofekClusters[i].cluster = cl /\ store.BofekClusters[i].dominant = 1}
    IN  [k \in 1..Cardinality(pos) |->
            store.BofekClusters[CHOOSE i \in pos : Cardinality({j \in pos : j <= i}) = k].normalsoilprofile_id]

\* a call of a batch entry point with a non-empty list
ListCall(op) == call.op = op /\ call.input.iter /\ call.input.vals # << >>

\* the positions of a list input whose value does not exist
AbsentAt(kind, vals) == {i \in DOMAIN vals : ~Exists(kind, vals[i])}

(***************************************************************************)
(* C1: the constructor called with none or with more than one of index,    *)
(* code, bofekcluster fails with "Provide exactly one input ...", whether  *)
(* or not the given values exist.                                          *)
(***************************************************************************)
C1_ExactlyOneInput ==
    (call.op = "SoilProfile" /\ Cardinality(GivenKeys) # 1)
        => FailedWith("Provide exactly one input: soilprofile index, code, or bofek cluster number.",
                      << >>)

\* two keys, neither of which exists, give the input-count error
C1_Witness ==
    /\ call.op = "SoilProfile"
    /\ call.index = Some(999) /\ call.code = Some("test") /\ call.bofekcluster = None
    /\ ~Exists("index", 999) /\ ~Exists("code", "test")
    /\ FailedWith("Provide exactly one input: soilprofile index, code, or bofek cluster number.",
                  << >>)

(***************************************************************************)
(* C2: a single absent index, code or cluster number, given to the         *)
(* constructor, from_index, from_code or from_bofekcluster (dominant or    *)
(* not), fails with the not-found error of its kind naming that value.     *)
(***************************************************************************)
C2_AbsentNotFound ==
    /\ (call.op = "SoilProfile" /\ Cardinality(GivenKeys) = 1)
        => \A k \in GivenKeys :
              ~Exists(k, Val(call[k])) => NotFound(k, Val(call[k]))
    /\ (call.op \in BatchOps /\ ~call.input.iter)
        => (~Exists(KindOf(call.op), call.input.vals[1])
                => NotFound(KindOf(call.op), call.input.vals[1]))

\* from_bofekcluster(9999, dominant=False) fails naming 9999
C2_Witness ==
    /\ call.op = "from_bofekcluster" /\ ~call.dominant
    /\ call.input = Scalar(9999)
    /\ NotFound("bofekcluster", 9999)

(***************************************************************************)
(* C3: get_swapinput_profile fails with the divisibility error exactly     *)
(* when some (depth, height) pair has depth % height # 0, and the error    *)
(* names the depths and the heights of all those pairs.                    *)
(***************************************************************************)
DivisibilityText ==
    "The given compartment depths are not a natural product of the given compartment heights"

\* the positions of the pairs that do not divide, ascending
BadPairs ==
    LET d == call.discretisation_depths
        h == call.discretisation_compheights
    IN  Sorted({i \in (DOMAIN d) \cap (DOMAIN h) : d[i] % h[i] # 0})

C3_NonDivisibleGrid ==
    call.op = "get_swapinput_profile"
        => /\ BadPairs # << >>
                => FailedWith(DivisibilityText,
                              <<[k \in DOMAIN BadPairs |-> call.discretisation_depths[BadPairs[k]]],
                                [k \in DOMAIN BadPairs |-> call.discretisation_compheights[BadPairs[k]]]>>)
           /\ BadPairs = << >> => ~(Failed /\ result.msg.text = DivisibilityText)

\* two pairs fail and both are named
C3_Witness ==
    /\ call.op = "get_swapinput_profile"
    /\ call.discretisation_depths = <<3, 1>>
    /\ call.discretisation_compheights = <<2, 2>>
    /\ FailedWith(DivisibilityText, <<<<3, 1>>, <<2, 2>>>>)

(***************************************************************************)
(* C4: the HSUBLAY of the returned rows sum to at most the total of the    *)
(* discretisation depths, no running sum of them lies deeper, and for a    *)
(* grid of as many heights as depths the sum is the total whenever the     *)
(* deepest horizon bottom is at or below it.                               *)
(***************************************************************************)
TotalDepth == Sum(call.discretisation_depths)

HorizonBottoms ==
    {store.SoilHorizons[i].zbottom : i \in
        {j \in DOMAIN store.SoilHorizons :
            store.SoilHorizons[j].normalsoilprofile_id = call.index}}

SumHsublay(n) == Sum([i \in 1..n |-> result.val[i].HSUBLAY])

C4_ThicknessWithinGrid ==
    (call.op = "get_swapinput_profile" /\ Returned)
        => /\ \A n \in 0..Len(result.val) : SumHsublay(n) <= TotalDepth
           /\ (/\ Len(call.discretisation_depths) = Len(call.discretisation_compheights)
               /\ \E z \in HorizonBottoms : z >= TotalDepth)
                => SumHsublay(Len(result.val)) = TotalDepth

\* a horizon bottom below the reach of the grid and one inside a compartment
C4_Witness ==
    /\ call.op = "get_swapinput_profile" /\ Returned
    /\ call.discretisation_depths = <<4>> /\ call.discretisation_compheights = <<2>>
    /\ HorizonBottoms = {3, 5}
    /\ SumHsublay(Len(result.val)) = 4

(***************************************************************************)
(* C5: SoilProfile(code=c) for a code of SoilProfiles returns the identity *)
(* of the profile with that code when there is exactly one, and fails      *)
(* with the error listing all the indices of the code when there are more. *)
(***************************************************************************)
MultipleText == "Given soil unit code corresponds to multiple soils with indices"

C5_CodeUniqueOrAmbiguous ==
    (call.op = "SoilProfile" /\ GivenKeys = {"code"} /\ Exists("code", Val(call.code)))
        => LET ids == IdsWith(store.SoilProfiles, "soilunit", Val(call.code))
           IN  IF Len(ids) = 1
               THEN Returned /\ result.val.profiles = <<IdentityOf(ids[1])>>
               ELSE FailedWith(MultipleText, <<Val(call.code), ids>>)

\* a code shared by two profiles is refused, naming both
C5_Witness ==
    /\ call.op = "SoilProfile" /\ GivenKeys = {"code"}
    /\ Len(IdsWith(store.SoilProfiles, "soilunit", Val(call.code))) = 2
    /\ FailedWith(MultipleText,
                  <<Val(call.code), IdsWith(store.SoilProfiles, "soilunit", Val(call.code))>>)

\* a code of one profile resolves to it
C5_WitnessUnique ==
    /\ call.op = "SoilProfile" /\ GivenKeys = {"code"}
    /\ Len(IdsWith(store.SoilProfiles, "soilunit", Val(call.code))) = 1
    /\ Returned

(***************************************************************************)
(* C6: resolving an existing cluster with dominance True (constructor or   *)
(* from_bofekcluster) returns the one profile of the only dominant row of  *)
(* the cluster, and fails when the cluster has no or several dominant rows.*)
(***************************************************************************)
DominantCall ==
    \/ /\ call.op = "SoilProfile" /\ GivenKeys = {"bofekcluster"}
       /\ call.bofekcluster_dominant = Some(TRUE)
    \/ call.op = "from_bofekcluster" /\ ~call.input.iter /\ call.dominant

DominantCluster ==
    IF call.op = "SoilProfile" THEN Val(call.bofekcluster) ELSE call.input.vals[1]

C6_DominantOfCluster ==
    (DominantCall /\ Exists("bofekcluster", DominantCluster))
        => LET ids == DominantIds(DominantCluster)
           IN  IF Len(ids) = 1
               THEN /\ Returned
                    /\ result.val.shape = "single"
                    /\ result.val.profiles = <<IdentityOf(ids[1])>>
                    /\ result.val.profiles[1].bofekcluster = Some(DominantCluster)
                    /\ result.val.profiles[1].bofekcluster_dominant = Some(TRUE)
               ELSE Failed

\* a cluster with two dominant rows is refused
C6_Witness ==
    /\ DominantCall /\ Exists("bofekcluster", DominantCluster)
    /\ Len(DominantIds(DominantCluster)) = 2
    /\ Failed

(***************************************************************************)
(* C7: from_bofekcluster(..., dominant=False) on existing clusters returns *)
(* a list with the identity of every row of each cluster, cluster by       *)
(* cluster in input order.                                                 *)
(***************************************************************************)
ClusterInputExists ==
    /\ call.op = "from_bofekcluster" /\ ~call.dominant
    /\ call.input.vals # << >>
    /\ AbsentAt("bofekcluster", call.input.vals) = {}

C7_AllOfCluster ==
    ClusterInputExists
        => LET ids == Flatten([k \in DOMAIN call.input.vals |->
                                IdsWith(store.BofekClusters, "cluster", call.input.vals[k])])
           IN  /\ Returned
               /\ result.val.shape = "list"
               /\ result.val.profiles = [k \in DOMAIN ids |-> IdentityOf(ids[k])]

\* two clusters, the first of two profiles of which one is not dominant
C7_Witness ==
    /\ ClusterInputExists /\ Returned
    /\ call.input = List(<<1002, 1001>>)
    /\ Len(IdsWith(store.BofekClusters, "cluster", 1002)) = 2
    /\ Len(result.val.profiles) = 3
    /\ result.val.profiles[1].bofekcluster = Some(1002)
    /\ result.val.profiles[3].bofekcluster = Some(1001)
    /\ \E k \in 1..2 : result.val.profiles[k].bofekcluster_dominant = Some(FALSE)

(***************************************************************************)
(* C8: from_code on existing codes returns one profile per index of each   *)
(* code, code by code in input order and within a code in the row order of *)
(* SoilProfiles, each with the code it was asked for.                      *)
(***************************************************************************)
CodeInputExists ==
    /\ call.op = "from_code"
    /\ call.input.vals # << >>
    /\ AbsentAt("code", call.input.vals) = {}

\* the code asked for at each position of the expected result
CodeAsked ==
    Flatten([k \in DOMAIN call.input.vals |->
                [j \in DOMAIN IdsWith(store.SoilProfiles, "soilunit", call.input.vals[k]) |->
                    call.input.vals[k]]])

C8_AllOfCode ==
    CodeInputExists
        => LET ids == Flatten([k \in DOMAIN call.input.vals |->
                                IdsWith(store.SoilProfiles, "soilunit", call.input.vals[k])])
           IN  /\ Returned
               /\ result.val.profiles = [k \in DOMAIN ids |-> IdentityOf(ids[k])]
               /\ \A k \in DOMAIN ids : result.val.profiles[k].code = Some(CodeAsked[k])

\* two codes, the first shared by two profiles whose rows are not in index order
C8_Witness ==
    /\ CodeInputExists /\ Returned
    /\ call.input = List(<<"Zn21", "Hn21">>)
    /\ Len(result.val.profiles) = 3
    /\ result.val.profiles[1].code = Some("Zn21")
    /\ result.val.profiles[2].code = Some("Zn21")
    /\ Val(result.val.profiles[1].index) > Val(result.val.profiles[2].index)
    /\ result.val.profiles[3].code = Some("Hn21")

(***************************************************************************)
(* C9: from_index, from_code and from_bofekcluster given a list with an    *)
(* element that does not exist fail with the not-found error naming the    *)
(* first such element of the list.                                         *)
(***************************************************************************)
FirstAbsent(kind, vals) ==
    vals[CHOOSE i \in AbsentAt(kind, vals) : \A j \in AbsentAt(kind, vals) : i <= j]

C9_BatchFailFast ==
    \A op \in BatchOps :
        (ListCall(op) /\ AbsentAt(KindOf(op), call.input.vals) # {})
            => NotFound(KindOf(op), FirstAbsent(KindOf(op), call.input.vals))

\* the absent element follows an existing one, in the dominant cluster lookup
C9_Witness ==
    /\ ListCall("from_bofekcluster") /\ call.dominant
    /\ Len(call.input.vals) = 2
    /\ Exists("bofekcluster", call.input.vals[1])
    /\ call.input.vals[2] = 9999
    /\ NotFound("bofekcluster", 9999)

(***************************************************************************)
(* C10: from_index and from_bofekcluster(dominant=True) given a non-empty  *)
(* list of existing keys return a list of the same length whose k-th       *)
(* profile is the resolution of the k-th key.                              *)
(***************************************************************************)
C10_BatchSameOrder ==
    /\ (ListCall("from_index") /\ AbsentAt("index", call.input.vals) = {})
        => /\ Returned /\ result.val.shape = "list"
           /\ result.val.profiles = [k \in DOMAIN call.input.vals |->
                                        IdentityOf(call.input.vals[k])]
    /\ (ListCall("from_bofekcluster") /\ call.dominant
            /\ AbsentAt("bofekcluster", call.input.vals) = {})
        => /\ Returned /\ result.val.shape = "list"
           /\ Len(result.val.profiles) = Len(call.input.vals)
           /\ \A k \in DOMAIN call.input.vals :
                /\ result.val.profiles[k] = IdentityOf(DominantIds(call.input.vals[k])[1])
                /\ result.val.profiles[k].bofekcluster = Some(call.input.vals[k])

\* a list of two different indices in descending order
C10_Witness ==
    /\ ListCall("from_index") /\ Returned
    /\ call.input.vals = <<103, 101>>
    /\ result.val.profiles[1].index = Some(103)
    /\ result.val.profiles[2].index = Some(101)

\* the same key twice gives the same profile twice
C10_WitnessDuplicate ==
    /\ ListCall("from_bofekcluster") /\ call.dominant /\ Returned
    /\ call.input.vals = <<1001, 1001>>
    /\ Len(result.val.profiles) = 2
    /\ result.val.profiles[1] = result.val.profiles[2]

(***************************************************************************)
(* Vocabulary of the properties of from_location.                          *)
(***************************************************************************)
LocCall == call.op = "from_location"

\* x and y of the call are both non-empty lists
BothLists == call.x.iter /\ call.y.iter /\ call.x.vals # << >> /\ call.y.vals # << >>

\* x and y of the call are both scalars
BothScalars == ~call.x.iter /\ ~call.y.iter

\* the k-th request was answered, without an error status, by a JSON
\* document that has no feature
NoFeature(k) ==
    /\ requests[k].response.status < 400
    /\ requests[k].response.json
    /\ requests[k].response.features = << >>

\* the profile the table of map areas holds for the area whose number the
\* last five characters of a maparea_id write
AreaProfile(mapid) ==
    LET nr == IntOf(LastFive(mapid)).val
        row == CHOOSE r \in Range(store.SoilProfiles_MapAreaID) : r.maparea_id = nr
    IN  row.normalsoilprofile_id

\* entry e is the profile of the first feature of the response to request k
ProfileOfFeature(e, k) ==
    /\ ~IsNone(e)
    /\ Val(e).index = Some(AreaProfile(requests[k].response.features[1]))

\* the k-th request was sent for the k-th location of the call
RequestOf(k, xs, ys) == requests[k].params.bbox = <<xs[k], ys[k]>>

(***************************************************************************)
(* C11: from_location called with two lists of N coordinates and returning *)
(* returns a list of N entries; entry k is the outcome of the request sent *)
(* for coordinate k: None when the response has no feature, else the       *)
(* profile of its first feature.  Called with two scalars it returns one   *)
(* entry, not a list: that profile or None.                                *)
(***************************************************************************)
C11_PositionPreserved ==
    (LocCall /\ Returned) =>
        /\ BothLists =>
            /\ result.val.shape = "list"
            /\ Len(result.val.entries) = Len(call.x.vals)
            /\ Len(requests) = Len(call.x.vals)
            /\ \A k \in DOMAIN call.x.vals :
                /\ RequestOf(k, call.x.vals, call.y.vals)
                /\ IF NoFeature(k) THEN IsNone(result.val.entries[k])
                   ELSE ProfileOfFeature(result.val.entries[k], k)
        /\ BothScalars =>
            /\ result.val.shape = "single"
            /\ Len(result.val.entries) = 1
            /\ Len(requests) = 1
            /\ RequestOf(1, call.x.vals, call.y.vals)
            /\ IF NoFeature(1) THEN IsNone(result.val.entries[1])
               ELSE ProfileOfFeature(result.val.entries[1], 1)

\* two different locations, the first without a feature: [None, profile 101]
C11_Witness ==
    /\ LocCall /\ Returned /\ BothLists
    /\ call.x.vals = <<Num(0), Num(1)>>
    /\ call.y.vals = <<Num(1), Num(0)>>
    /\ result.val.entries[1] = None
    /\ result.val.entries[2] # None
    /\ Val(result.val.entries[2]).index = Some(101)

\* a scalar pair without a feature returns None, not a list
C11_WitnessScalar ==
    /\ LocCall /\ Returned /\ BothScalars
    /\ result.val = [shape |-> "single", entries |-> <<None>>]

(***************************************************************************)
(* C12: in from_location the warnings issued are exactly one               *)
(* "No soil information available" UserWarning per request answered with   *)
(* an empty feature list, in request order, each naming the x and y of     *)
(* that request; such an answer never ends the call; and in a returning    *)
(* call the entries that are None are those of these requests, so there    *)
(* are as many warnings as None entries.                                   *)
(***************************************************************************)
NoSoilText == "No soil information available for this location: x = {xx}, y = {yy}."

\* the positions of the requests answered without a feature, in order
NoFeatureRequests == SelectRows([k \in DOMAIN requests |-> k], LAMBDA k : NoFeature(k))

C12_WarningPerNull ==
    LocCall =>
        /\ Len(warnings) = Len(NoFeatureRequests)
        /\ \A i \in DOMAIN warnings :
            /\ warnings[i].category = "UserWarning"
            /\ warnings[i].text = NoSoilText
            /\ warnings[i].args = requests[NoFeatureRequests[i]].params.bbox
        /\ (Failed /\ requests # << >>) => ~NoFeature(Len(requests))
        /\ Returned =>
            /\ Len(requests) = Len(result.val.entries)
            /\ \A k \in DOMAIN result.val.entries :
                    IsNone(result.val.entries[k]) <=> NoFeature(k)
            /\ Cardinality({k \in DOMAIN result.val.entries : IsNone(result.val.entries[k])})
                    = Len(warnings)

\* the first of two locations has no feature and the second is resolved:
\* one warning naming x = 0, y = 1, and the entries [None, profile]
C12_Witness ==
    /\ LocCall /\ Returned /\ BothLists
    /\ call.x.vals = <<Num(0), Num(1)>>
    /\ call.y.vals = <<Num(1), Num(1)>>
    /\ Len(warnings) = 1
    /\ warnings[1].args = <<Num(0), Num(1)>>
    /\ IsNone(result.val.entries[1])
    /\ ~IsNone(result.val.entries[2])

\* a warning was issued for the first location and the second request failed
C12_WitnessFailedLater ==
    /\ LocCall /\ Failed
    /\ Len(requests) = 2
    /\ Len(warnings) = 1

(***************************************************************************)
(* C13: from_location accepts x and y only when both are scalars or both   *)
(* are sequences of equal length and every value is a number.  A sequence  *)
(* with a scalar, or two sequences of different lengths, fail with a shape *)
(* error.  When the shapes agree, a value that is not a number makes the   *)
(* call fail with an error that names the axis and the position of such a  *)
(* value in its sequence (for scalars, the value itself).                  *)
(***************************************************************************)
ShapeTexts ==
    {"X is iterable while Y is not.", "Y is iterable while X is not.",
     "List of X and Y coordinates do not have the same length (x: {len(x)}, y: {len(y)})."}

ShapeError == Failed /\ result.exc = "ValueError" /\ result.msg.text \in ShapeTexts

\* x and y of the call are two scalars or two sequences of one length
ShapesAgree ==
    \/ ~call.x.iter /\ ~call.y.iter
    \/ call.x.iter /\ call.y.iter /\ Len(call.x.vals) = Len(call.y.vals)

\* the 1-based positions of the values of an argument that are not numbers
NotNumbersAt(arg) == {i \in DOMAIN arg.vals : Len(arg.vals[i]) # 1}

\* the type error of a sequence: the axis and the 0-based position of a
\* value of that axis that is not a number
SequenceTypeError ==
    \/ /\ result.msg.text = "The {i}th element of the X-coordinates is neither a float or int."
       /\ \E i \in NotNumbersAt(call.x) : result.msg.args = <<i - 1>>
    \/ /\ result.msg.text = "The {j}th element of the Y-coordinates is neither a float or int."
       /\ \E j \in NotNumbersAt(call.y) : result.msg.args = <<j - 1>>

\* the type error of a scalar: the axis and the value that is not a number
ScalarTypeError ==
    \/ /\ result.msg.text = "The X-coordinate '{x}' is neither a float or int."
       /\ NotNumbersAt(call.x) # {}
       /\ result.msg.args = <<call.x.vals[1]>>
    \/ /\ result.msg.text = "The Y-coordinate '{y}' is neither a float or int."
       /\ NotNumbersAt(call.y) # {}
       /\ result.msg.args = <<call.y.vals[1]>>

C13_ShapeAndType ==
    LocCall =>
        /\ (Returned \/ requests # << >>)
                => (ShapesAgree /\ NotNumbersAt(call.x) = {} /\ NotNumbersAt(call.y) = {})
        /\ ~ShapesAgree => ShapeError
        /\ (ShapesAgree /\ (NotNumbersAt(call.x) # {} \/ NotNumbersAt(call.y) # {}))
                => /\ Failed /\ result.exc = "ValueError"
                   /\ IF call.x.iter THEN SequenceTypeError ELSE ScalarTypeError

\* the same for the calls in which no argument is the empty sequence
C13_ShapeAndTypeNonEmpty ==
    (LocCall /\ call.x # List(<< >>) /\ call.y # List(<< >>)) => C13_ShapeAndType

\* x = [0, "test"], y = [1, 1] fails naming position 1 of X
C13_WitnessNonEmpty ==
    /\ LocCall
    /\ call.x = List(<<Num(0), Text("test")>>)
    /\ call.y = List(<<Num(1), Num(1)>>)
    /\ FailedWith("The {i}th element of the X-coordinates is neither a float or int.", <<1>>)

(***************************************************************************)
(* C14: when the service answers a request of from_location with an error  *)
(* status, the call fails with the HTTPError of that status: the request   *)
(* is the last of the call, and the call returns nothing.  No request is   *)
(* sent again: the k-th request of a call is the one for its k-th          *)
(* location, so there is at most one request per location.                 *)
(***************************************************************************)
ErrorStatus(k) == ~(requests[k].response.status \in 200..299)

C14_HttpErrorFatal ==
    LocCall =>
        /\ \A k \in DOMAIN requests :
                ErrorStatus(k) =>
                    /\ Failed
                    /\ result.exc = "HTTPError"
                    /\ result.msg.args = <<requests[k].response.status>>
                    /\ result.val = << >>
                    /\ k = Len(requests)
        /\ Len(requests) <= (IF BothLists THEN Len(call.x.vals) ELSE 1)
        /\ \A k \in DOMAIN requests :
                /\ RequestOf(k, call.x.vals, call.y.vals)
                /\ requests[k].params.crs = call.crs

\* the first of two locations is resolved and the request for the second
\* is answered with status 404
C14_Witness ==
    /\ LocCall /\ BothLists
    /\ Len(call.x.vals) = 2
    /\ Len(requests) = 2
    /\ requests[1].response.features # << >>
    /\ requests[2].response.status = 404
    /\ Failed /\ result.exc = "HTTPError"

(***************************************************************************)
(* C15: when the service answers a request of from_location, without an    *)
(* error status, by an XML exception document, the call fails with a       *)
(* ValueError and returns nothing: if the text of the exception holds      *)
(* "Unsupported CRS namespace" the error names the crs of the call,        *)
(* otherwise the error is the text of the exception, unchanged.            *)
(***************************************************************************)
ExceptionDocument(k) ==
    requests[k].response.status \in 200..299 /\ ~requests[k].response.json

HasCrsMarker(text) == "Unsupported CRS namespace" \in Range(text)

C15_ServiceException ==
    LocCall =>
        \A k \in DOMAIN requests :
            ExceptionDocument(k) =>
                /\ Failed
                /\ result.exc = "ValueError"
                /\ result.val = << >>
                /\ k = Len(requests)
                /\ IF HasCrsMarker(requests[k].response.text)
                   THEN /\ result.msg.text = "Unsupported CRS: {crs}. Please use format 'EPSG:XXX'."
                        /\ result.msg.args = <<call.crs>>
                   ELSE /\ result.msg.text = "{exception.text}"
                        /\ result.msg.args = requests[k].response.text

\* from_location(x=0, y=1, crs="test") answered with the unsupported-CRS exception
C15_Witness ==
    /\ LocCall /\ BothScalars
    /\ call.crs = "test"
    /\ Len(requests) = 1
    /\ ExceptionDocument(1)
    /\ HasCrsMarker(requests[1].response.text)
    /\ FailedWith("Unsupported CRS: {crs}. Please use format 'EPSG:XXX'.", <<"test">>)

\* an exception of another text reaches the caller as it is
C15_WitnessRaw ==
    /\ LocCall
    /\ Len(requests) = 2
    /\ ExceptionDocument(2)
    /\ ~HasCrsMarker(requests[2].response.text)
    /\ FailedWith("{exception.text}", requests[2].response.text)

(***************************************************************************)
(* C16: get_swapinput_profile with the grid depths [50, 30, 60, 60, 100]   *)
(* and heights [1, 2, 5, 10, 20] on a profile that has horizon bottoms at  *)
(* 80 cm and 140 cm returns rows whose running sum of HSUBLAY passes       *)
(* through 80 and 140; and, for every grid, when every horizon bottom      *)
(* within the total depth of the grid is the bottom of a compartment of    *)
(* the grid, the sum of NCOMP is the sum of depth / height over the grid,  *)
(* which is 88 for this grid.                                              *)
(***************************************************************************)
\* the compartment bottoms of the grid of the call
GridBoundaries ==
    LET d == call.discretisation_depths
        h == call.discretisation_compheights
    IN  UNION {{Sum(SubSeq(d, 1, i - 1)) + k * h[i] : k \in 1..(d[i] \div h[i])} :
                    i \in DOMAIN d}

\* every horizon bottom within the reach of the grid is a compartment bottom
Aligned == \A z \in HorizonBottoms : z <= TotalDepth => z \in GridBoundaries

TotalNcomp == Sum([i \in DOMAIN result.val |-> result.val[i].NCOMP])

SublayerBoundaries == {SumHsublay(n) : n \in 1..Len(result.val)}

ClaimGrid ==
    /\ call.discretisation_depths = <<50, 30, 60, 60, 100>>
    /\ call.discretisation_compheights = <<1, 2, 5, 10, 20>>

C16_GridCompartments ==
    (call.op = "get_swapinput_profile" /\ Returned) =>
        /\ (ClaimGrid /\ {80, 140} \subseteq HorizonBottoms)
                => {80, 140} \subseteq SublayerBoundaries
        /\ (ClaimGrid /\ {80, 140} \subseteq HorizonBottoms /\ Aligned)
                => TotalNcomp = 88
        /\ Aligned
                => TotalNcomp = Sum([i \in DOMAIN call.discretisation_depths |->
                                        call.discretisation_depths[i]
                                            \div call.discretisation_compheights[i]])

\* the same for the profiles whose horizon bottoms the conversion to
\* centimetres keeps
C16_GridCompartmentsExact ==
    (call.op = "get_swapinput_profile" /\ HorizonBottoms \cap FloatTruncated = {})
        => C16_GridCompartments

\* the grid of the claim on horizon bottoms 0.30, 0.80, 1.40, 2.50 m: 88 compartments
C16_WitnessExact ==
    /\ call.op = "get_swapinput_profile" /\ Returned
    /\ ClaimGrid
    /\ HorizonBottoms = {30, 80, 140}
    /\ TotalNcomp = 88

(***************************************************************************)
(* C17: a profile resolved from an index i of the tables, by the           *)
(* constructor or by from_index, has index i; and when its code is the     *)
(* code of that profile only, resolving by that code gives a profile of    *)
(* index i again, and resolving by the index of that profile gives the     *)
(* identity first resolved.                                                *)
(***************************************************************************)
\* the call resolves one profile from an index alone
ByIndexCall ==
    \/ call.op = "SoilProfile" /\ GivenKeys = {"index"}
    \/ call.op = "from_index" /\ ~call.input.iter

IndexAsked == IF call.op = "SoilProfile" THEN Val(call.index) ELSE call.input.vals[1]

\* the profile resolved by the code of profile sp, then by the index of that
RoundTrip(sp) ==
    Then(PostInit(None, sp.code, None, None), LAMBDA by_code :
         PostInit(by_code.index, None, None, None))

C17_IndexRoundTrip ==
    (ByIndexCall /\ Exists("index", IndexAsked)) =>
        /\ Returned
        /\ result.val.profiles[1].index = Some(IndexAsked)
        /\ Len(IdsWith(store.SoilProfiles, "soilunit", Val(result.val.profiles[1].code))) = 1
                => /\ PostInit(None, result.val.profiles[1].code, None, None).ok
                   /\ PostInit(None, result.val.profiles[1].code, None, None).val.index
                            = Some(IndexAsked)
                   /\ RoundTrip(result.val.profiles[1]) = Return(result.val.profiles[1])
                   /\ FromCode(Scalar(Val(result.val.profiles[1].code)))
                            = Return([shape |-> "single", profiles |-> result.val.profiles])

\* SoilProfile(index=103) where no other profile has the code of 103, and
\* 103 is not the first row of any table
C17_Witness ==
    /\ call.op = "SoilProfile" /\ GivenKeys = {"index"}
    /\ call.index = Some(103)
    /\ Returned
    /\ IdsWith(store.SoilProfiles, "soilunit", Val(result.val.profiles[1].code)) = <<103>>
    /\ store.SoilProfiles[1].normalsoilprofile_id = 101
    /\ store.SoilProfiles[1].soilunit # Val(result.val.profiles[1].code)

(***************************************************************************)
(* C18: for every cluster of the store, from_bofekcluster(cl,              *)
(* dominant=True) returns one profile, and from_bofekcluster(cl,           *)
(* dominant=False) returns a list that holds a profile of that index.      *)
(***************************************************************************)
\* from_bofekcluster called with one cluster number of the store
OneClusterCall ==
    /\ call.op = "from_bofekcluster"
    /\ ~call.input.iter
    /\ Exists("bofekcluster", call.input.vals[1])

\* dominant is one profile and its index is the index of a profile of all
DominantAmong(dominant, all) ==
    /\ dominant.ok /\ all.ok
    /\ dominant.val.shape = "single"
    /\ Len(dominant.val.profiles) = 1
    /\ all.val.shape = "list"
    /\ \E k \in DOMAIN all.val.profiles :
            all.val.profiles[k].index = dominant.val.profiles[1].index

C18_DominantAmongAll ==
    OneClusterCall =>
        IF call.dominant
        THEN DominantAmong(result, FromBofekcluster(call.input, FALSE))
        ELSE DominantAmong(FromBofekcluster(call.input, TRUE), result)

\* cluster 1001 holds the three profiles and its dominant one is the
\* second of them in the BofekClusters table
C18_Witness ==
    /\ OneClusterCall /\ call.dominant /\ Returned
    /\ call.input.vals[1] = 1001
    /\ Len(IdsWith(store.BofekClusters, "cluster", 1001)) = 3
    /\ result.val.profiles[1].index = Some(IdsWith(store.BofekClusters, "cluster", 1001)[2])

(***************************************************************************)
(* C19: every profile returned by the constructor, from_index, from_code,  *)
(* from_bofekcluster or from_location has an index that is in the          *)
(* SoilProfiles and in the BofekClusters table, and its code, name,        *)
(* cluster, cluster name and dominance are those the tables hold for that  *)
(* index: two profiles of one index, however resolved, are equal.          *)
(***************************************************************************)
ResolverOps == {"SoilProfile", "from_index", "from_code", "from_bofekcluster", "from_location"}

\* the profiles a returning call of a resolver returned
ReturnedProfiles ==
    IF call.op = "from_location"
    THEN {Val(result.val.entries[k]) :
            k \in {j \in DOMAIN result.val.entries : ~IsNone(result.val.entries[j])}}
    ELSE Range(result.val.profiles)

InBothTables(id) ==
    /\ \E i \in DOMAIN store.SoilProfiles : store.SoilProfiles[i].normalsoilprofile_id = id
    /\ \E i \in DOMAIN store.BofekClusters : store.BofekClusters[i].normalsoilprofile_id = id

C19_IdentityFromTables ==
    (call.op \in ResolverOps /\ Returned) =>
        \A p \in ReturnedProfiles :
            /\ ~IsNone(p.index)
            /\ InBothTables(Val(p.index))
            /\ p = IdentityOf(Val(p.index))

\* from_location returns profile 102, the profile of map area 1, as the
\* tables hold it: not dominant in cluster 1002
C19_Witness ==
    /\ call.op = "from_location" /\ Returned
    /\ requests[1].response.features = <<MapIds.known1>>
    /\ result.val.entries[1] = Some(IdentityOf(102))
    /\ IdentityOf(102).bofekcluster = Some(1002)
    /\ IdentityOf(102).bofekcluster_dominant = Some(FALSE)

\* the constructor or from_code returns that same profile
C19_WitnessOtherKeys ==
    /\ call.op \in {"SoilProfile", "from_code"} /\ Returned
    /\ result.val.profiles[1] = IdentityOf(102)

(***************************************************************************)
(* C20: the constructor given a cluster alone fails with "Given bofek      *)
(* cluster number does not exist." when the cluster is not in the table,   *)
(* whatever bofekcluster_dominant is; for a cluster of the table it fails  *)
(* with "Please specify the attribute bofekcluster_dominant." when         *)
(* bofekcluster_dominant is not given and with the message naming          *)
(* from_bofekcluster() when it is False.                                   *)
(***************************************************************************)
SpecifyText == "Please specify the attribute bofekcluster_dominant."

UseFromBofekclusterText ==
    "To get all soilprofiles corresponding to this BOFEK cluster, use the method from_bofekcluster()."

C20_ClusterDominanceErrors ==
    (call.op = "SoilProfile" /\ GivenKeys = {"bofekcluster"}) =>
        IF ~Exists("bofekcluster", Val(call.bofekcluster))
        THEN NotFound("bofekcluster", Val(call.bofekcluster))
        ELSE /\ IsNone(call.bofekcluster_dominant) => FailedWith(SpecifyText, << >>)
             /\ call.bofekcluster_dominant = Some(FALSE)
                    => FailedWith(UseFromBofekclusterText, << >>)

\* SoilProfile(bofekcluster=1002) on a store whose cluster 1002 has profiles
C20_Witness ==
    /\ call.op = "SoilProfile" /\ GivenKeys = {"bofekcluster"}
    /\ call.bofekcluster = Some(1002)
    /\ Exists("bofekcluster", 1002)
    /\ IsNone(call.bofekcluster_dominant)
    /\ FailedWith(SpecifyText, << >>)

\* SoilProfile(bofekcluster=9999): not found, though the dominance is not given
C20_WitnessAbsent ==
    /\ call.op = "SoilProfile" /\ GivenKeys = {"bofekcluster"}
    /\ call.bofekcluster = Some(9999)
    /\ IsNone(call.bofekcluster_dominant)
    /\ NotFound("bofekcluster", 9999)

(***************************************************************************)
(* C21: from_code given an iterable of codes returns a list of profiles,   *)
(* also when the iterable holds one code that only one profile has; a      *)
(* bare profile is returned for a scalar code only.                        *)
(***************************************************************************)
C21_IterableGivesList ==
    (call.op = "from_code" /\ call.input.iter /\ Returned)
        => result.val.shape = "list"

\* the same for the lists whose codes have more than one profile in all
C21_IterableOfSeveralGivesList ==
    (/\ call.op = "from_code" /\ call.input.iter /\ Returned
     /\ Len(Flatten([k \in DOMAIN call.input.vals |->
                        IdsWith(store.SoilProfiles, "soilunit", call.input.vals[k])])) # 1)
        => result.val.shape = "list"

\* a list of one code that two profiles share gives a list of two profiles
C21_WitnessSeveral ==
    /\ call.op = "from_code" /\ Returned
    /\ call.input = List(<<"Zn21">>)
    /\ result.val.shape = "list"
    /\ Len(result.val.profiles) = 2

(***************************************************************************)
(* C22: get_swapinput_profile assigns every sublayer with bottom depth b   *)
(* to the first horizon whose bottom is at or below b, and to the deepest  *)
(* horizon when b lies below every horizon bottom.  On the returned rows:  *)
(* every ISOILLAY is a horizon number; a profile of one horizon and a grid *)
(* that ends above the shallowest horizon bottom give rows of layer 1      *)
(* only; and for a grid of as many heights as depths the rows of a layer   *)
(* have the total thickness of the sublayers the rule gives that layer.    *)
(***************************************************************************)
NrHorizons == Cardinality(HorizonBottoms)

\* the 1-based position of the first horizon whose bottom is at or below b,
\* the deepest horizon when there is none
ClaimedLayer(b) ==
    Min(Cardinality({z \in HorizonBottoms : z < b}) + 1, NrHorizons)

\* the bottoms of the sublayers: the compartment bottoms of the grid and the
\* horizon bottoms, within the total depth of the grid
CutBoundaries ==
    Sorted({b \in HorizonBottoms \cup GridBoundaries : b <= TotalDepth})

\* the thickness of the sublayers that the rule assigns to layer l
ClaimedThickness(l) ==
    LET cb == CutBoundaries
    IN  Sum([i \in DOMAIN cb |->
                IF ClaimedLayer(cb[i]) = l
                THEN cb[i] - (IF i = 1 THEN 0 ELSE cb[i - 1])
                ELSE 0])

\* the thickness of the returned rows of layer l
RowsThickness(l) ==
    Sum([i \in DOMAIN result.val |->
            IF result.val[i].ISOILLAY = l THEN result.val[i].HSUBLAY ELSE 0])

OnlyLayerOne == \A i \in DOMAIN result.val : result.val[i].ISOILLAY = 1

C22_LayerOfSublayer ==
    (call.op = "get_swapinput_profile" /\ Returned) =>
        /\ \A i \in DOMAIN result.val : result.val[i].ISOILLAY \in 1..NrHorizons
        /\ NrHorizons = 1 => OnlyLayerOne
        /\ (\A z \in HorizonBottoms : TotalDepth < z) => OnlyLayerOne
        /\ Len(call.discretisation_depths) = Len(call.discretisation_compheights)
            => \A l \in 1..NrHorizons : RowsThickness(l) = ClaimedThickness(l)

\* the same for the profiles whose horizon bottoms the conversion to
\* centimetres keeps
C22_LayerOfSublayerExact ==
    (call.op = "get_swapinput_profile" /\ HorizonBottoms \cap FloatTruncated = {})
        => C22_LayerOfSublayer

\* horizons end at 0.65 m and 1.20 m, inside the grid: 65 cm of layer 1 and
\* all below it, 235 cm, of layer 2
C22_WitnessExact ==
    /\ call.op = "get_swapinput_profile" /\ Returned
    /\ ClaimGrid
    /\ HorizonBottoms = {65, 120}
    /\ RowsThickness(1) = 65
    /\ RowsThickness(2) = 235
    /\ ClaimedLayer(300) = 2

(***************************************************************************)
(* C23: for a grid of as many heights as depths, the rows returned by      *)
(* get_swapinput_profile are numbered 1..n and lie top to bottom: row i    *)
(* spans the depths from the running sum of HSUBLAY above it to the        *)
(* running sum including it, the sublayer bottoms within that span are     *)
(* exactly its NCOMP compartments of height HCOMP, and all of them are of  *)
(* its soil layer.                                                         *)
(***************************************************************************)
RowTop(i) == SumHsublay(i - 1)

\* the sublayer bottoms below the top and down to the bottom of row i
BoundariesOfRow(i) ==
    {b \in Range(CutBoundaries) : RowTop(i) < b /\ b <= SumHsublay(i)}

EqualLengths == Len(call.discretisation_depths) = Len(call.discretisation_compheights)

C23_RowsTopToBottom ==
    (call.op = "get_swapinput_profile" /\ Returned /\ EqualLengths) =>
        \A i \in DOMAIN result.val :
            /\ result.val[i].ISUBLAY = i
            /\ BoundariesOfRow(i) =
                    {RowTop(i) + k * result.val[i].HCOMP : k \in 1..result.val[i].NCOMP}
            /\ \A b \in BoundariesOfRow(i) : ClaimedLayer(b) = result.val[i].ISOILLAY

\* the compartment heights do not decrease with depth
HeightsAscending ==
    \A i, j \in DOMAIN call.discretisation_compheights :
        i <= j => call.discretisation_compheights[i] <= call.discretisation_compheights[j]

\* the same for the grids whose heights do not decrease with depth and whose
\* compartments no horizon bottom cuts
C23_RowsTopToBottomAligned ==
    (call.op = "get_swapinput_profile" /\ Returned /\ EqualLengths
        /\ HeightsAscending /\ Aligned)
        => C23_RowsTopToBottom

\* two zones and a horizon bottom on the boundary of the zones: two rows,
\* the second of the two compartments of the second zone
C23_WitnessAligned ==
    /\ call.op = "get_swapinput_profile" /\ Returned
    /\ call.discretisation_depths = <<2, 4>>
    /\ call.discretisation_compheights = <<1, 2>>
    /\ HorizonBottoms = {2, 4}
    /\ Len(result.val) = 2
    /\ BoundariesOfRow(2) = {4, 6}

(***************************************************************************)
(* C24: in every row returned by get_swapinput_profile NCOMP is a whole    *)
(* number of at least 1 and NCOMP * HCOMP = HSUBLAY, whatever the grid and *)
(* the horizons: the division that gives NCOMP never leaves a remainder.   *)
(***************************************************************************)
C24_ExactCount ==
    (call.op = "get_swapinput_profile" /\ Returned) =>
        \A i \in DOMAIN result.val :
            /\ result.val[i].NCOMP \in Nat \ {0}
            /\ result.val[i].NCOMP * result.val[i].HCOMP = result.val[i].HSUBLAY

\* horizon bottoms inside compartments: the third row merges a remainder of
\* a cut compartment with two whole compartments of the same height
C24_Witness ==
    /\ call.op = "get_swapinput_profile" /\ Returned
    /\ call.discretisation_depths = <<4, 2>>
    /\ call.discretisation_compheights = <<2, 1>>
    /\ HorizonBottoms = {3, 5}
    /\ Len(result.val) = 3
    /\ result.val[3].HCOMP = 1 /\ result.val[3].HSUBLAY = 3 /\ result.val[3].NCOMP = 3

(***************************************************************************)
(* C25, as claimed: when the crs given to from_location is not the         *)
(* reference system of the map service, the coordinates are transformed    *)
(* locally before the service is queried, so every request is made in the  *)
(* reference system of the service.                                        *)
(***************************************************************************)
\* the reference system of the map, the default of from_location
ServiceCrs == "EPSG:28992"

C25_TransformedBeforeQuery ==
    (LocCall /\ call.crs # ServiceCrs) =>
        \A k \in DOMAIN requests : requests[k].params.crs = ServiceCrs

(***************************************************************************)
(* C25, amended: from_location transforms nothing.  Every request carries  *)
(* the crs of the call and the coordinates of its location as they were    *)
(* given, whatever the crs, and no request other than the one per location *)
(* is made; reading the coordinates in that crs is left to the service.    *)
(***************************************************************************)
C25_CrsPassedThrough ==
    LocCall =>
        /\ Len(requests) <= Len(Locations(call.x, call.y))
        /\ \A k \in DOMAIN requests :
            /\ requests[k].params.crs = call.crs
            /\ requests[k].params.bbox = Locations(call.x, call.y)[k]

\* a location given in another reference system resolves to a profile, the
\* request having been made in that system
C25_Witness ==
    /\ LocCall /\ Returned /\ BothScalars
    /\ call.crs = "EPSG:4326"
    /\ call.x.vals = <<Num(1)>> /\ call.y.vals = <<Num(0)>>
    /\ Len(requests) = 1
    /\ requests[1].params = [crs |-> "EPSG:4326", bbox |-> <<Num(1), Num(0)>>]
    /\ result.val.entries[1] # None

(***************************************************************************)
(* C26, as claimed: for a grid of as many heights as depths, every HCOMP   *)
(* of the rows returned by get_swapinput_profile is a compartment height   *)
(* that the caller supplied.                                               *)
(***************************************************************************)
SuppliedHeights == Range(call.discretisation_compheights)

ExpandedDepth ==
    LET d == call.discretisation_depths
        h == call.discretisation_compheights
    IN  Sum([i \in 1..Min(Len(d), Len(h)) |-> d[i]])

C27_UnequalLengthsRejected ==
    call.op = "get_swapinput_profile" =>
        /\ ~EqualLengths => (Failed /\ result.exc = "ValueError")
        /\ Returned => TotalDepth = ExpandedDepth

(***************************************************************************)
(* C28: from_location checks the shape and the type of all coordinates     *)
(* before it sends anything: a call whose shapes disagree or that holds a  *)
(* value that is not a number, at any position, fails without a request.   *)
(* Otherwise the k-th request is the one for the k-th location, a call     *)
(* that returns has sent one request per location, and a request whose     *)
(* answer makes the call fail is the last request of the call.             *)
(***************************************************************************)
InvalidCoordinates ==
    ~ShapesAgree \/ NotNumbersAt(call.x) # {} \/ NotNumbersAt(call.y) # {}

\* the table of map areas holds the area of a maparea_id
KnownArea(mapid) ==
    \E r \in Range(store.SoilProfiles_MapAreaID) :
        r.maparea_id = IntOf(LastFive(mapid)).val

\* the answer to the k-th request cannot be resolved: an error status, an
\* exception document, or a feature of an area the table lacks
FailsAt(k) ==
    \/ ErrorStatus(k)
    \/ ~requests[k].response.json
    \/ /\ requests[k].response.features # << >>
       /\ ~KnownArea(requests[k].response.features[1])

C28_ValidateBeforeRequests ==
    LocCall =>
        /\ InvalidCoordinates => (Failed /\ requests = << >>)
        /\ \A k \in DOMAIN requests :
            /\ k <= Len(Locations(call.x, call.y))
            /\ requests[k].params.bbox = Locations(call.x, call.y)[k]
            /\ FailsAt(k) => (Failed /\ k = Len(requests))
        /\ Returned => Len(requests) = Len(Locations(call.x, call.y))

\* the answer for the first of two locations names an area the table
\* lacks: the call fails and the second location is never asked for
C28_Witness ==
    /\ LocCall /\ Failed /\ BothLists
    /\ Len(call.x.vals) = 2
    /\ Len(requests) = 1
    /\ requests[1].response = Json(200, <<MapIds.absent>>)
    /\ result.exc = "IndexError"

\* an invalid value at the last position: no request at all
C28_WitnessInvalidLast ==
    /\ LocCall /\ Failed
    /\ call.x = List(<<Num(0), Num(1)>>)
    /\ call.y = List(<<Num(0), Text("test")>>)
    /\ requests = << >>

(***************************************************************************)
(* C29: from_index, from_code and from_bofekcluster called with an empty   *)
(* sequence, and from_location called with two empty sequences, return an  *)
(* empty list and raise nothing.                                           *)
(***************************************************************************)
EmptyInput ==
    \/ call.op \in BatchOps /\ call.input = List(<< >>)
    \/ LocCall /\ call.x = List(<< >>) /\ call.y = List(<< >>)

C29_EmptyGivesEmpty ==
    /\ (call.op \in BatchOps /\ call.input = List(<< >>))
        => (Returned /\ result.val.shape = "list" /\ result.val.profiles = << >>)
    /\ (LocCall /\ call.x = List(<< >>) /\ call.y = List(<< >>))
        => (Returned /\ result.val.shape = "list" /\ result.val.entries = << >>)

\* what the calls do: each fails with a ValueError, and from_location sends
\* no request
C29_EmptyFails ==
    EmptyInput => (Failed /\ result.exc = "ValueError" /\ requests = << >>)

\* from_location([], []) fails with the type error of a scalar X
C29_WitnessFails ==
    /\ LocCall /\ call.x = List(<< >>) /\ call.y = List(<< >>)
    /\ FailedWith("The X-coordinate '{x}' is neither a float or int.", <<EmptyList>>)

====
